---- MODULE Spec2Model ----
(***************************************************************************)
(* A model of the Gorgias MCP server: the request router of the Worker,    *)
(* the per-request credential check, the per-request upstream client and   *)
(* tool catalog, the single upstream request path with its status          *)
(* classification, and the tool handlers with their error envelopes.       *)
(*                                                                         *)
(* JavaScript values are modelled as follows.                              *)
(*   - a string is a TLA+ string;                                          *)
(*   - "string | null" and "string | undefined" are sequences of length    *)
(*     at most one: <<>> is null/undefined, <<s>> is the string s;         *)
(*   - a number is a sequence of length at most one: <<n>> is the integer  *)
(*     n, <<>> is NaN;                                                     *)
(*   - a JSON value is a record with exactly one field naming its type:    *)
(*     [lit |-> "null"], [str |-> s], [num |-> n], [arr |-> seq],          *)
(*     [obj |-> sequence of <<key, value>> pairs in insertion order].      *)
(***************************************************************************)
EXTENDS Integers, Sequences, FiniteSets, TLC

VARIABLES
    pc,          \* per request: where the request is in the pipeline
    request,     \* per request: the inbound HTTP request (path, method, headers)
    httpResp,    \* per request: the Response the router itself returned
    server,      \* per request: the McpServer built for it (client + tools)
    invocation,  \* per request: the tool call the protocol runtime dispatched
    calls,       \* per request: the upstream HTTP calls issued, in order
    response,    \* per request: how the upstream call settled
    raised,      \* per request: the error request() threw, if any
    opResult,    \* per request: what the client operation returned, if it returned
    envelope,    \* per request: what the tool handler returned (or threw)
    applied,     \* a utility function applied on its own: its name, its
                 \* input and, once it has been applied, its output
    formatted,   \* the calls of the formatter made on its own, in order: the
                 \* arguments and the output of each
    bodyReads    \* per request: the reads request() made of the response
                 \* body, in order ("text" for response.text(), "json" for
                 \* response.json())

vars == <<pc, request, httpResp, server, invocation, calls, response, raised, opResult,
          envelope, applied, formatted, bodyReads>>

(***************************************************************************)
(* Bounds.                                                                 *)
(***************************************************************************)
\* Number of inbound requests handled concurrently in Spec.
NumRequests == 2

\* Number of calls of the formatter made one after another in SpecPure.
MaxFormatterCalls == 3

Requests == 1..NumRequests

(***************************************************************************)
(* Strings.                                                                *)
(***************************************************************************)
\* The character of s at position i, as a one-character string.
CharAt(s, i) == SubSeq(s, i, i)

\* String.prototype.includes
Contains(s, sub) ==
    \E i \in 1..(Len(s) - Len(sub) + 1) : SubSeq(s, i, i + Len(sub) - 1) = sub

\* The position of the first occurrence of sub in s, 0 when there is none.
IndexOf(s, sub) ==
    IF Contains(s, sub)
    THEN CHOOSE i \in 1..(Len(s) - Len(sub) + 1) :
            /\ SubSeq(s, i, i + Len(sub) - 1) = sub
            /\ \A j \in 1..(i - 1) : SubSeq(s, j, j + Len(sub) - 1) # sub
    ELSE 0

\* Array.prototype.join over a sequence of strings
RECURSIVE Join(_, _)
Join(parts, sep) ==
    IF Len(parts) = 0 THEN ""
    ELSE IF Len(parts) = 1 THEN parts[1]
    ELSE parts[1] \o sep \o Join(Tail(parts), sep)

Digits == "0123456789"
UpperCase == "ABCDEFGHIJKLMNOPQRSTUVWXYZ"
LowerCase == "abcdefghijklmnopqrstuvwxyz"

IsDigit(c) == Len(c) = 1 /\ Contains(Digits, c)

DigitValue(c) == IndexOf(Digits, c) - 1

\* The code unit of a one-character string (the ASCII subset used here).
CharCode(c) ==
    IF Contains(Digits, c) THEN 47 + IndexOf(Digits, c)
    ELSE IF Contains(UpperCase, c) THEN 64 + IndexOf(UpperCase, c)
    ELSE IF Contains(LowerCase, c) THEN 96 + IndexOf(LowerCase, c)
    ELSE IF c = " " THEN 32
    ELSE IF c = "-" THEN 45
    ELSE IF c = "." THEN 46
    ELSE IF c = ":" THEN 58
    ELSE IF c = "@" THEN 64
    ELSE 95 \* "_"

Base64Alphabet == UpperCase \o LowerCase \o Digits \o "+/"

Base64Char(i) == CharAt(Base64Alphabet, i + 1)

\* btoa: base64 of the bytes of s, three bytes at a time, '=' padded.
RECURSIVE btoa(_)
btoa(s) ==
    IF Len(s) = 0 THEN ""
    ELSE LET b1 == CharCode(CharAt(s, 1))
             b2 == IF Len(s) >= 2 THEN CharCode(CharAt(s, 2)) ELSE 0
             b3 == IF Len(s) >= 3 THEN CharCode(CharAt(s, 3)) ELSE 0
             n  == b1 * 65536 + b2 * 256 + b3
             c1 == Base64Char(n \div 262144)
             c2 == Base64Char((n \div 4096) % 64)
             c3 == Base64Char((n \div 64) % 64)
             c4 == Base64Char(n % 64)
         IN  IF Len(s) = 1 THEN c1 \o c2 \o "=="
             ELSE IF Len(s) = 2 THEN c1 \o c2 \o c3 \o "="
             ELSE c1 \o c2 \o c3 \o c4 \o btoa(SubSeq(s, 4, Len(s)))

(***************************************************************************)
(* Optional values and JavaScript truthiness of an optional string.        *)
(***************************************************************************)
Null == <<>>
Some(v) == <<v>>

\* !!x for x : string | null | undefined
Truthy(x) == x # Null /\ x[1] # ""

\* x || undefined
OrUndefined(x) == IF Truthy(x) THEN x ELSE Null

(***************************************************************************)
(* Credentials (types/env.ts).                                             *)
(***************************************************************************)
\* The partial credential triple read off the request headers.
parseGorgiasCredentials(req) ==
    [ domain |-> OrUndefined(req.headers.domain),
      email  |-> OrUndefined(req.headers.email),
      apiKey |-> OrUndefined(req.headers.apiKey) ]

\* The list of missing header names, in the order the checks are made.
MissingHeadersNoApiKey(credentials) ==
    (IF ~Truthy(credentials.domain) THEN <<"X-Gorgias-Domain">> ELSE <<>>)
    \o (IF ~Truthy(credentials.email) THEN <<"X-Gorgias-Email">> ELSE <<>>)

MissingHeadersEmailFirst(credentials) ==
    (IF ~Truthy(credentials.email) THEN <<"X-Gorgias-Email">> ELSE <<>>)
    \o (IF ~Truthy(credentials.domain) THEN <<"X-Gorgias-Domain">> ELSE <<>>)
    \o (IF ~Truthy(credentials.apiKey) THEN <<"X-Gorgias-API-Key">> ELSE <<>>)

MissingHeaders(credentials) ==
    (IF ~Truthy(credentials.domain) THEN <<"X-Gorgias-Domain">> ELSE <<>>)
    \o (IF ~Truthy(credentials.email) THEN <<"X-Gorgias-Email">> ELSE <<>>)
    \o (IF ~Truthy(credentials.apiKey) THEN <<"X-Gorgias-API-Key">> ELSE <<>>)

\* Either returns normally (threw = FALSE) or throws an Error with a message.
validateGorgiasCredentials(credentials) ==
    LET missing == MissingHeaders(credentials)
    IN  IF Len(missing) > 0
        THEN [threw |-> TRUE,
              message |-> "Missing required headers: " \o Join(missing, ", ")]
        ELSE [threw |-> FALSE, message |-> ""]

\* The partial triple used as a full one once validation has returned (the
\* assertion is a compile-time one: a member that is still undefined is
\* interpolated into URLs and headers as the text "undefined").
Interpolated(x) == IF x = Null THEN "undefined" ELSE x[1]

Credentials(partial) ==
    [ domain |-> Interpolated(partial.domain),
      email |-> Interpolated(partial.email),
      apiKey |-> Interpolated(partial.apiKey) ]

(***************************************************************************)
(* JSON values and JSON.stringify.                                         *)
(***************************************************************************)
JUndefined == [lit |-> "undefined"]
JNull == [lit |-> "null"]
JTrue == [lit |-> "true"]
JFalse == [lit |-> "false"]
JStr(s) == [str |-> s]
JNum(n) == [num |-> n]
JArr(items) == [arr |-> items]
JObj(fields) == [obj |-> fields]

IsLit(v) == DOMAIN v = {"lit"}
IsStr(v) == DOMAIN v = {"str"}
IsNum(v) == DOMAIN v = {"num"}
IsArr(v) == DOMAIN v = {"arr"}
IsObj(v) == DOMAIN v = {"obj"}
IsUndefined(v) == IsLit(v) /\ v.lit = "undefined"
IsNullish(v) == IsLit(v) /\ v.lit \in {"undefined", "null"}

\* An optional string as a JSON value (undefined when absent).
JOpt(x) == IF x = Null THEN JUndefined ELSE JStr(x[1])

\* The fields of an object that JSON.stringify keeps: those not undefined.
RECURSIVE DefinedFields(_)
DefinedFields(fields) ==
    IF Len(fields) = 0 THEN <<>>
    ELSE IF IsUndefined(Head(fields)[2]) THEN DefinedFields(Tail(fields))
    ELSE <<Head(fields)>> \o DefinedFields(Tail(fields))

\* A string with the characters JSON escapes (of those the model uses: the
\* double quote and the backslash) escaped.
RECURSIVE EscapeChars(_)
EscapeChars(s) ==
    IF Len(s) = 0 THEN ""
    ELSE (IF CharAt(s, 1) = "\"" THEN "\\\""
          ELSE IF CharAt(s, 1) = "\\" THEN "\\\\"
          ELSE CharAt(s, 1)) \o EscapeChars(SubSeq(s, 2, Len(s)))

EscapeString(s) ==
    IF Contains(s, "\"") \/ Contains(s, "\\") THEN EscapeChars(s) ELSE s

\* The text JSON.stringify produces for a defined value; indent is the
\* indentation unit ("" for the compact form), cur the current indentation.
RECURSIVE StringifyValue(_, _, _)
StringifyValue(v, indent, cur) ==
    IF IsLit(v) THEN (IF v.lit = "undefined" THEN "null" ELSE v.lit)
    ELSE IF IsStr(v) THEN "\"" \o EscapeString(v.str) \o "\""
    ELSE IF IsNum(v) THEN ToString(v.num)
    ELSE IF IsArr(v) THEN
        IF Len(v.arr) = 0 THEN "[]"
        ELSE IF indent = "" THEN
            "[" \o Join([i \in 1..Len(v.arr) |-> StringifyValue(v.arr[i], indent, cur)], ",") \o "]"
        ELSE
            "[\n"
            \o Join([i \in 1..Len(v.arr) |->
                       cur \o indent \o StringifyValue(v.arr[i], indent, cur \o indent)], ",\n")
            \o "\n" \o cur \o "]"
    ELSE
        LET fs == DefinedFields(v.obj)
        IN  IF Len(fs) = 0 THEN "{}"
            ELSE IF indent = "" THEN
                "{" \o Join([i \in 1..Len(fs) |->
                        "\"" \o fs[i][1] \o "\":" \o StringifyValue(fs[i][2], indent, cur)], ",")
                \o "}"
            ELSE
                "{\n"
                \o Join([i \in 1..Len(fs) |->
                        cur \o indent \o "\"" \o fs[i][1] \o "\": "
                        \o StringifyValue(fs[i][2], indent, cur \o indent)], ",\n")
                \o "\n" \o cur \o "}"

\* JSON.stringify(v): undefined (Null) for undefined, else the compact text.
JSONstringify(v) == IF IsUndefined(v) THEN Null ELSE Some(StringifyValue(v, "", ""))

\* JSON.stringify(v, null, 2)
JSONstringify2(v) == IF IsUndefined(v) THEN Null ELSE Some(StringifyValue(v, "  ", ""))

\* obj[key] for a JSON object (undefined when the key is absent).
GetField(v, key) ==
    IF \E i \in 1..Len(v.obj) : v.obj[i][1] = key
    THEN v.obj[CHOOSE i \in 1..Len(v.obj) :
                  /\ v.obj[i][1] = key
                  /\ \A j \in (i + 1)..Len(v.obj) : v.obj[j][1] # key][2]
    ELSE JUndefined

\* JavaScript truthiness of a JSON value.
TruthyValue(v) ==
    IF IsLit(v) THEN v.lit = "true"
    ELSE IF IsStr(v) THEN v.str # ""
    ELSE IF IsNum(v) THEN v.num # 0
    ELSE TRUE

(***************************************************************************)
(* The upstream client (client.ts).                                        *)
(***************************************************************************)
\* A client that is a process-wide singleton: the first one built is reused.
createGorgiasClientShared(credentials) ==
    IF \E r \in Requests : server[r] # Null
    THEN server[CHOOSE r \in Requests : server[r] # Null][1].client
    ELSE [credentials |-> credentials]

createGorgiasClient(credentials) == [credentials |-> credentials]

getBaseUrl(client) == "https://" \o client.credentials.domain \o ".gorgias.com/api"

getAuthHeaders(client) ==
    [ Authorization |-> "Basic " \o btoa(client.credentials.email \o ":" \o client.credentials.apiKey),
      ContentType |-> "application/json" ]

\* The operations of the client: HTTP method, endpoint (":id" stands for the
\* id interpolated into the path), and the shape of what the operation returns.
GorgiasClientImpl ==
  [ testConnection |-> [http |-> "GET", path |-> "/users?limit=1", returns |-> "connection", mapper |-> "none"],
    getAccount |-> [http |-> "GET", path |-> "/account", returns |-> "entity", mapper |-> "getAccount"],
    listTickets |-> [http |-> "GET", path |-> "/tickets", returns |-> "page", mapper |-> "mapTicket"],
    getTicket |-> [http |-> "GET", path |-> "/tickets/:id", returns |-> "entity", mapper |-> "mapTicketWithMessages"],
    createTicket |-> [http |-> "POST", path |-> "/tickets", returns |-> "entity", mapper |-> "mapTicket"],
    updateTicket |-> [http |-> "PUT", path |-> "/tickets/:id", returns |-> "entity", mapper |-> "mapTicket"],
    deleteTicket |-> [http |-> "DELETE", path |-> "/tickets/:id", returns |-> "void", mapper |-> "none"],
    addTicketTags |-> [http |-> "POST", path |-> "/tickets/:id/tags", returns |-> "void", mapper |-> "none"],
    removeTicketTags |-> [http |-> "DELETE", path |-> "/tickets/:id/tags", returns |-> "void", mapper |-> "none"],
    listMessages |-> [http |-> "GET", path |-> "/messages", returns |-> "page", mapper |-> "mapMessage"],
    getMessage |-> [http |-> "GET", path |-> "/messages/:id", returns |-> "entity", mapper |-> "mapMessage"],
    createMessage |-> [http |-> "POST", path |-> "/messages", returns |-> "entity", mapper |-> "mapMessage"],
    deleteMessage |-> [http |-> "DELETE", path |-> "/messages/:id", returns |-> "void", mapper |-> "none"],
    listCustomers |-> [http |-> "GET", path |-> "/customers", returns |-> "page", mapper |-> "mapCustomer"],
    getCustomer |-> [http |-> "GET", path |-> "/customers/:id", returns |-> "entity", mapper |-> "mapCustomer"],
    createCustomer |-> [http |-> "POST", path |-> "/customers", returns |-> "entity", mapper |-> "mapCustomer"],
    updateCustomer |-> [http |-> "PUT", path |-> "/customers/:id", returns |-> "entity", mapper |-> "mapCustomer"],
    deleteCustomer |-> [http |-> "DELETE", path |-> "/customers/:id", returns |-> "void", mapper |-> "none"],
    mergeCustomers |-> [http |-> "PUT", path |-> "/customers/:id/merge", returns |-> "entity", mapper |-> "mapCustomer"],
    listUsers |-> [http |-> "GET", path |-> "/users", returns |-> "page", mapper |-> "mapUser"],
    getUser |-> [http |-> "GET", path |-> "/users/:id", returns |-> "entity", mapper |-> "mapUser"],
    listTeams |-> [http |-> "GET", path |-> "/teams", returns |-> "array", mapper |-> "mapTeam"],
    getTeam |-> [http |-> "GET", path |-> "/teams/:id", returns |-> "entity", mapper |-> "mapTeam"],
    createTeam |-> [http |-> "POST", path |-> "/teams", returns |-> "entity", mapper |-> "mapTeam"],
    updateTeam |-> [http |-> "PUT", path |-> "/teams/:id", returns |-> "entity", mapper |-> "mapTeam"],
    deleteTeam |-> [http |-> "DELETE", path |-> "/teams/:id", returns |-> "void", mapper |-> "none"],
    listTags |-> [http |-> "GET", path |-> "/tags", returns |-> "array", mapper |-> "mapTag"],
    getTag |-> [http |-> "GET", path |-> "/tags/:id", returns |-> "entity", mapper |-> "mapTag"],
    createTag |-> [http |-> "POST", path |-> "/tags", returns |-> "entity", mapper |-> "mapTag"],
    updateTag |-> [http |-> "PUT", path |-> "/tags/:id", returns |-> "entity", mapper |-> "mapTag"],
    deleteTag |-> [http |-> "DELETE", path |-> "/tags/:id", returns |-> "void", mapper |-> "none"],
    mergeTags |-> [http |-> "PUT", path |-> "/tags/merge", returns |-> "entity", mapper |-> "mapTag"],
    listMacros |-> [http |-> "GET", path |-> "/macros", returns |-> "page", mapper |-> "mapMacro"],
    getMacro |-> [http |-> "GET", path |-> "/macros/:id", returns |-> "entity", mapper |-> "mapMacro"],
    createMacro |-> [http |-> "POST", path |-> "/macros", returns |-> "entity", mapper |-> "mapMacro"],
    updateMacro |-> [http |-> "PUT", path |-> "/macros/:id", returns |-> "entity", mapper |-> "mapMacro"],
    deleteMacro |-> [http |-> "DELETE", path |-> "/macros/:id", returns |-> "void", mapper |-> "none"],
    listRules |-> [http |-> "GET", path |-> "/rules", returns |-> "page", mapper |-> "mapRule"],
    getRule |-> [http |-> "GET", path |-> "/rules/:id", returns |-> "entity", mapper |-> "mapRule"],
    createRule |-> [http |-> "POST", path |-> "/rules", returns |-> "entity", mapper |-> "mapRule"],
    updateRule |-> [http |-> "PUT", path |-> "/rules/:id", returns |-> "entity", mapper |-> "mapRule"],
    deleteRule |-> [http |-> "DELETE", path |-> "/rules/:id", returns |-> "void", mapper |-> "none"],
    listIntegrations |-> [http |-> "GET", path |-> "/integrations", returns |-> "array", mapper |-> "mapIntegration"],
    getIntegration |-> [http |-> "GET", path |-> "/integrations/:id", returns |-> "entity", mapper |-> "mapIntegration"],
    createIntegration |-> [http |-> "POST", path |-> "/integrations", returns |-> "entity", mapper |-> "mapIntegration"],
    updateIntegration |-> [http |-> "PUT", path |-> "/integrations/:id", returns |-> "entity", mapper |-> "mapIntegration"],
    deleteIntegration |-> [http |-> "DELETE", path |-> "/integrations/:id", returns |-> "void", mapper |-> "none"],
    listViews |-> [http |-> "GET", path |-> "/views", returns |-> "array", mapper |-> "mapView"],
    getView |-> [http |-> "GET", path |-> "/views/:id", returns |-> "entity", mapper |-> "mapView"],
    createView |-> [http |-> "POST", path |-> "/views", returns |-> "entity", mapper |-> "mapView"],
    updateView |-> [http |-> "PUT", path |-> "/views/:id", returns |-> "entity", mapper |-> "mapView"],
    deleteView |-> [http |-> "DELETE", path |-> "/views/:id", returns |-> "void", mapper |-> "none"],
    listViewItems |-> [http |-> "GET", path |-> "/views/:id/items", returns |-> "page", mapper |-> "mapTicket"],
    listSatisfactionSurveys |-> [http |-> "GET", path |-> "/satisfaction-surveys", returns |-> "page", mapper |-> "mapSatisfactionSurvey"],
    getSatisfactionSurvey |-> [http |-> "GET", path |-> "/satisfaction-surveys/:id", returns |-> "entity", mapper |-> "mapSatisfactionSurvey"],
    createSatisfactionSurvey |-> [http |-> "POST", path |-> "/satisfaction-surveys", returns |-> "entity", mapper |-> "mapSatisfactionSurvey"],
    listCustomFields |-> [http |-> "GET", path |-> "/custom-fields", returns |-> "array", mapper |-> "mapCustomField"],
    getCustomField |-> [http |-> "GET", path |-> "/custom-fields/:id", returns |-> "entity", mapper |-> "mapCustomField"],
    createCustomField |-> [http |-> "POST", path |-> "/custom-fields", returns |-> "entity", mapper |-> "mapCustomField"],
    updateCustomField |-> [http |-> "PUT", path |-> "/custom-fields/:id", returns |-> "entity", mapper |-> "mapCustomField"],
    listEvents |-> [http |-> "GET", path |-> "/events", returns |-> "page", mapper |-> "mapEvent"],
    getEvent |-> [http |-> "GET", path |-> "/events/:id", returns |-> "entity", mapper |-> "mapEvent"],
    listJobs |-> [http |-> "GET", path |-> "/jobs", returns |-> "page", mapper |-> "mapJob"],
    getJob |-> [http |-> "GET", path |-> "/jobs/:id", returns |-> "entity", mapper |-> "mapJob"],
    createJob |-> [http |-> "POST", path |-> "/jobs", returns |-> "entity", mapper |-> "mapJob"],
    cancelJob |-> [http |-> "DELETE", path |-> "/jobs/:id", returns |-> "void", mapper |-> "none"],
    listWidgets |-> [http |-> "GET", path |-> "/widgets", returns |-> "array", mapper |-> "mapWidget"],
    getWidget |-> [http |-> "GET", path |-> "/widgets/:id", returns |-> "entity", mapper |-> "mapWidget"],
    createWidget |-> [http |-> "POST", path |-> "/widgets", returns |-> "entity", mapper |-> "mapWidget"],
    updateWidget |-> [http |-> "PUT", path |-> "/widgets/:id", returns |-> "entity", mapper |-> "mapWidget"],
    deleteWidget |-> [http |-> "DELETE", path |-> "/widgets/:id", returns |-> "void", mapper |-> "none"],
    getStatistic |-> [http |-> "POST", path |-> "/stats/:id", returns |-> "entity", mapper |-> "getStatistic"] ]

(***************************************************************************)
(* The tool catalog: one definition per registerXxxTools function. Each    *)
(* tool names the client operation its handler awaits, whether it parses a *)
(* free-text JSON argument first (none, required, optional), and the shape *)
(* of its success payload: formatResponse(result, format, key), or a       *)
(* {success, message, key: result} object, or the connection result.       *)
(***************************************************************************)
registerAccountTools ==
  << [name |-> "gorgias_get_account", op |-> "getAccount", jsonArg |-> "none", success |-> "formatResponse",
     msgPre |-> "", msgId |-> FALSE, msgPost |-> "", key |-> "account", wrap |-> FALSE],
    [name |-> "gorgias_get_statistics", op |-> "getStatistic", jsonArg |-> "none", success |-> "formatResponse",
     msgPre |-> "", msgId |-> FALSE, msgPost |-> "", key |-> "statistics", wrap |-> FALSE],
    [name |-> "gorgias_test_connection", op |-> "testConnection", jsonArg |-> "none", success |-> "connection",
     msgPre |-> "", msgId |-> FALSE, msgPost |-> "", key |-> "", wrap |-> FALSE] >>

registerTicketTools ==
  << [name |-> "gorgias_list_tickets", op |-> "listTickets", jsonArg |-> "none", success |-> "formatResponse",
     msgPre |-> "", msgId |-> FALSE, msgPost |-> "", key |-> "tickets", wrap |-> FALSE],
    [name |-> "gorgias_get_ticket", op |-> "getTicket", jsonArg |-> "none", success |-> "formatResponse",
     msgPre |-> "", msgId |-> FALSE, msgPost |-> "", key |-> "ticket", wrap |-> FALSE],
    [name |-> "gorgias_create_ticket", op |-> "createTicket", jsonArg |-> "none", success |-> "message",
     msgPre |-> "Ticket created", msgId |-> FALSE, msgPost |-> "", key |-> "ticket", wrap |-> FALSE],
    [name |-> "gorgias_update_ticket", op |-> "updateTicket", jsonArg |-> "none", success |-> "message",
     msgPre |-> "Ticket updated", msgId |-> FALSE, msgPost |-> "", key |-> "ticket", wrap |-> FALSE],
    [name |-> "gorgias_delete_ticket", op |-> "deleteTicket", jsonArg |-> "none", success |-> "message",
     msgPre |-> "Ticket ", msgId |-> TRUE, msgPost |-> " deleted", key |-> "", wrap |-> FALSE],
    [name |-> "gorgias_add_ticket_tags", op |-> "addTicketTags", jsonArg |-> "none", success |-> "message",
     msgPre |-> "Tags added to ticket", msgId |-> FALSE, msgPost |-> "", key |-> "", wrap |-> FALSE],
    [name |-> "gorgias_remove_ticket_tags", op |-> "removeTicketTags", jsonArg |-> "none", success |-> "message",
     msgPre |-> "Tags removed from ticket", msgId |-> FALSE, msgPost |-> "", key |-> "", wrap |-> FALSE] >>

registerMessageTools ==
  << [name |-> "gorgias_list_messages", op |-> "listMessages", jsonArg |-> "none", success |-> "formatResponse",
     msgPre |-> "", msgId |-> FALSE, msgPost |-> "", key |-> "messages", wrap |-> FALSE],
    [name |-> "gorgias_get_message", op |-> "getMessage", jsonArg |-> "none", success |-> "formatResponse",
     msgPre |-> "", msgId |-> FALSE, msgPost |-> "", key |-> "message", wrap |-> FALSE],
    [name |-> "gorgias_create_message", op |-> "createMessage", jsonArg |-> "none", success |-> "message",
     msgPre |-> "Message created", msgId |-> FALSE, msgPost |-> "", key |-> "data", wrap |-> FALSE],
    [name |-> "gorgias_delete_message", op |-> "deleteMessage", jsonArg |-> "none", success |-> "message",
     msgPre |-> "Message ", msgId |-> TRUE, msgPost |-> " deleted", key |-> "", wrap |-> FALSE] >>

registerRuleTools ==
  << [name |-> "gorgias_list_rules", op |-> "listRules", jsonArg |-> "none", success |-> "formatResponse",
     msgPre |-> "", msgId |-> FALSE, msgPost |-> "", key |-> "rules", wrap |-> FALSE],
    [name |-> "gorgias_get_rule", op |-> "getRule", jsonArg |-> "none", success |-> "formatResponse",
     msgPre |-> "", msgId |-> FALSE, msgPost |-> "", key |-> "rule", wrap |-> FALSE],
    [name |-> "gorgias_create_rule", op |-> "createRule", jsonArg |-> "optional", success |-> "message",
     msgPre |-> "Rule created", msgId |-> FALSE, msgPost |-> "", key |-> "rule", wrap |-> FALSE],
    [name |-> "gorgias_update_rule", op |-> "updateRule", jsonArg |-> "optional", success |-> "message",
     msgPre |-> "Rule updated", msgId |-> FALSE, msgPost |-> "", key |-> "rule", wrap |-> FALSE],
    [name |-> "gorgias_delete_rule", op |-> "deleteRule", jsonArg |-> "none", success |-> "message",
     msgPre |-> "Rule ", msgId |-> TRUE, msgPost |-> " deleted", key |-> "", wrap |-> FALSE] >>

registerCustomerTools ==
  << [name |-> "gorgias_list_customers", op |-> "listCustomers", jsonArg |-> "none", success |-> "formatResponse",
     msgPre |-> "", msgId |-> FALSE, msgPost |-> "", key |-> "customers", wrap |-> FALSE],
    [name |-> "gorgias_get_customer", op |-> "getCustomer", jsonArg |-> "none", success |-> "formatResponse",
     msgPre |-> "", msgId |-> FALSE, msgPost |-> "", key |-> "customer", wrap |-> FALSE],
    [name |-> "gorgias_create_customer", op |-> "createCustomer", jsonArg |-> "none", success |-> "message",
     msgPre |-> "Customer created", msgId |-> FALSE, msgPost |-> "", key |-> "customer", wrap |-> FALSE],
    [name |-> "gorgias_update_customer", op |-> "updateCustomer", jsonArg |-> "none", success |-> "message",
     msgPre |-> "Customer updated", msgId |-> FALSE, msgPost |-> "", key |-> "customer", wrap |-> FALSE],
    [name |-> "gorgias_delete_customer", op |-> "deleteCustomer", jsonArg |-> "none", success |-> "message",
     msgPre |-> "Customer ", msgId |-> TRUE, msgPost |-> " deleted", key |-> "", wrap |-> FALSE],
    [name |-> "gorgias_merge_customers", op |-> "mergeCustomers", jsonArg |-> "none", success |-> "message",
     msgPre |-> "Customers merged", msgId |-> FALSE, msgPost |-> "", key |-> "customer", wrap |-> FALSE] >>

registerUserTools ==
  << [name |-> "gorgias_list_users", op |-> "listUsers", jsonArg |-> "none", success |-> "formatResponse",
     msgPre |-> "", msgId |-> FALSE, msgPost |-> "", key |-> "users", wrap |-> FALSE],
    [name |-> "gorgias_get_user", op |-> "getUser", jsonArg |-> "none", success |-> "formatResponse",
     msgPre |-> "", msgId |-> FALSE, msgPost |-> "", key |-> "user", wrap |-> FALSE] >>

registerTeamTools ==
  << [name |-> "gorgias_list_teams", op |-> "listTeams", jsonArg |-> "none", success |-> "formatResponse",
     msgPre |-> "", msgId |-> FALSE, msgPost |-> "", key |-> "teams", wrap |-> TRUE],
    [name |-> "gorgias_get_team", op |-> "getTeam", jsonArg |-> "none", success |-> "formatResponse",
     msgPre |-> "", msgId |-> FALSE, msgPost |-> "", key |-> "team", wrap |-> FALSE],
    [name |-> "gorgias_create_team", op |-> "createTeam", jsonArg |-> "none", success |-> "message",
     msgPre |-> "Team created", msgId |-> FALSE, msgPost |-> "", key |-> "team", wrap |-> FALSE],
    [name |-> "gorgias_update_team", op |-> "updateTeam", jsonArg |-> "none", success |-> "message",
     msgPre |-> "Team updated", msgId |-> FALSE, msgPost |-> "", key |-> "team", wrap |-> FALSE],
    [name |-> "gorgias_delete_team", op |-> "deleteTeam", jsonArg |-> "none", success |-> "message",
     msgPre |-> "Team ", msgId |-> TRUE, msgPost |-> " deleted", key |-> "", wrap |-> FALSE] >>

registerTagTools ==
  << [name |-> "gorgias_list_tags", op |-> "listTags", jsonArg |-> "none", success |-> "formatResponse",
     msgPre |-> "", msgId |-> FALSE, msgPost |-> "", key |-> "tags", wrap |-> TRUE],
    [name |-> "gorgias_get_tag", op |-> "getTag", jsonArg |-> "none", success |-> "formatResponse",
     msgPre |-> "", msgId |-> FALSE, msgPost |-> "", key |-> "tag", wrap |-> FALSE],
    [name |-> "gorgias_create_tag", op |-> "createTag", jsonArg |-> "none", success |-> "message",
     msgPre |-> "Tag created", msgId |-> FALSE, msgPost |-> "", key |-> "tag", wrap |-> FALSE],
    [name |-> "gorgias_update_tag", op |-> "updateTag", jsonArg |-> "none", success |-> "message",
     msgPre |-> "Tag updated", msgId |-> FALSE, msgPost |-> "", key |-> "tag", wrap |-> FALSE],
    [name |-> "gorgias_delete_tag", op |-> "deleteTag", jsonArg |-> "none", success |-> "message",
     msgPre |-> "Tag ", msgId |-> TRUE, msgPost |-> " deleted", key |-> "", wrap |-> FALSE],
    [name |-> "gorgias_merge_tags", op |-> "mergeTags", jsonArg |-> "none", success |-> "message",
     msgPre |-> "Tags merged", msgId |-> FALSE, msgPost |-> "", key |-> "tag", wrap |-> FALSE] >>

registerMacroTools ==
  << [name |-> "gorgias_list_macros", op |-> "listMacros", jsonArg |-> "none", success |-> "formatResponse",
     msgPre |-> "", msgId |-> FALSE, msgPost |-> "", key |-> "macros", wrap |-> FALSE],
    [name |-> "gorgias_get_macro", op |-> "getMacro", jsonArg |-> "none", success |-> "formatResponse",
     msgPre |-> "", msgId |-> FALSE, msgPost |-> "", key |-> "macro", wrap |-> FALSE],
    [name |-> "gorgias_create_macro", op |-> "createMacro", jsonArg |-> "required", success |-> "message",
     msgPre |-> "Macro created", msgId |-> FALSE, msgPost |-> "", key |-> "macro", wrap |-> FALSE],
    [name |-> "gorgias_update_macro", op |-> "updateMacro", jsonArg |-> "optional", success |-> "message",
     msgPre |-> "Macro updated", msgId |-> FALSE, msgPost |-> "", key |-> "macro", wrap |-> FALSE],
    [name |-> "gorgias_delete_macro", op |-> "deleteMacro", jsonArg |-> "none", success |-> "message",
     msgPre |-> "Macro ", msgId |-> TRUE, msgPost |-> " deleted", key |-> "", wrap |-> FALSE] >>

registerIntegrationTools ==
  << [name |-> "gorgias_list_integrations", op |-> "listIntegrations", jsonArg |-> "none", success |-> "formatResponse",
     msgPre |-> "", msgId |-> FALSE, msgPost |-> "", key |-> "integrations", wrap |-> TRUE],
    [name |-> "gorgias_get_integration", op |-> "getIntegration", jsonArg |-> "none", success |-> "formatResponse",
     msgPre |-> "", msgId |-> FALSE, msgPost |-> "", key |-> "integration", wrap |-> FALSE],
    [name |-> "gorgias_create_integration", op |-> "createIntegration", jsonArg |-> "optional", success |-> "message",
     msgPre |-> "Integration created", msgId |-> FALSE, msgPost |-> "", key |-> "integration", wrap |-> FALSE],
    [name |-> "gorgias_update_integration", op |-> "updateIntegration", jsonArg |-> "none", success |-> "message",
     msgPre |-> "Integration updated", msgId |-> FALSE, msgPost |-> "", key |-> "integration", wrap |-> FALSE],
    [name |-> "gorgias_delete_integration", op |-> "deleteIntegration", jsonArg |-> "none", success |-> "message",
     msgPre |-> "Integration ", msgId |-> TRUE, msgPost |-> " deleted", key |-> "", wrap |-> FALSE] >>

registerViewTools ==
  << [name |-> "gorgias_list_views", op |-> "listViews", jsonArg |-> "none", success |-> "formatResponse",
     msgPre |-> "", msgId |-> FALSE, msgPost |-> "", key |-> "views", wrap |-> TRUE],
    [name |-> "gorgias_get_view", op |-> "getView", jsonArg |-> "none", success |-> "formatResponse",
     msgPre |-> "", msgId |-> FALSE, msgPost |-> "", key |-> "view", wrap |-> FALSE],
    [name |-> "gorgias_create_view", op |-> "createView", jsonArg |-> "none", success |-> "message",
     msgPre |-> "View created", msgId |-> FALSE, msgPost |-> "", key |-> "view", wrap |-> FALSE],
    [name |-> "gorgias_update_view", op |-> "updateView", jsonArg |-> "none", success |-> "message",
     msgPre |-> "View updated", msgId |-> FALSE, msgPost |-> "", key |-> "view", wrap |-> FALSE],
    [name |-> "gorgias_delete_view", op |-> "deleteView", jsonArg |-> "none", success |-> "message",
     msgPre |-> "View ", msgId |-> TRUE, msgPost |-> " deleted", key |-> "", wrap |-> FALSE],
    [name |-> "gorgias_list_view_items", op |-> "listViewItems", jsonArg |-> "none", success |-> "formatResponse",
     msgPre |-> "", msgId |-> FALSE, msgPost |-> "", key |-> "tickets", wrap |-> FALSE] >>

registerSatisfactionTools ==
  << [name |-> "gorgias_list_satisfaction_surveys", op |-> "listSatisfactionSurveys", jsonArg |-> "none", success |-> "formatResponse",
     msgPre |-> "", msgId |-> FALSE, msgPost |-> "", key |-> "satisfaction_surveys", wrap |-> FALSE],
    [name |-> "gorgias_get_satisfaction_survey", op |-> "getSatisfactionSurvey", jsonArg |-> "none", success |-> "formatResponse",
     msgPre |-> "", msgId |-> FALSE, msgPost |-> "", key |-> "satisfaction_survey", wrap |-> FALSE],
    [name |-> "gorgias_create_satisfaction_survey", op |-> "createSatisfactionSurvey", jsonArg |-> "none", success |-> "message",
     msgPre |-> "Satisfaction survey created", msgId |-> FALSE, msgPost |-> "", key |-> "survey", wrap |-> FALSE] >>

registerCustomFieldTools ==
  << [name |-> "gorgias_list_custom_fields", op |-> "listCustomFields", jsonArg |-> "none", success |-> "formatResponse",
     msgPre |-> "", msgId |-> FALSE, msgPost |-> "", key |-> "custom_fields", wrap |-> TRUE],
    [name |-> "gorgias_get_custom_field", op |-> "getCustomField", jsonArg |-> "none", success |-> "formatResponse",
     msgPre |-> "", msgId |-> FALSE, msgPost |-> "", key |-> "custom_field", wrap |-> FALSE],
    [name |-> "gorgias_create_custom_field", op |-> "createCustomField", jsonArg |-> "none", success |-> "message",
     msgPre |-> "Custom field created", msgId |-> FALSE, msgPost |-> "", key |-> "customField", wrap |-> FALSE],
    [name |-> "gorgias_update_custom_field", op |-> "updateCustomField", jsonArg |-> "none", success |-> "message",
     msgPre |-> "Custom field updated", msgId |-> FALSE, msgPost |-> "", key |-> "customField", wrap |-> FALSE] >>

registerEventTools ==
  << [name |-> "gorgias_list_events", op |-> "listEvents", jsonArg |-> "none", success |-> "formatResponse",
     msgPre |-> "", msgId |-> FALSE, msgPost |-> "", key |-> "events", wrap |-> FALSE],
    [name |-> "gorgias_get_event", op |-> "getEvent", jsonArg |-> "none", success |-> "formatResponse",
     msgPre |-> "", msgId |-> FALSE, msgPost |-> "", key |-> "event", wrap |-> FALSE] >>

registerJobTools ==
  << [name |-> "gorgias_list_jobs", op |-> "listJobs", jsonArg |-> "none", success |-> "formatResponse",
     msgPre |-> "", msgId |-> FALSE, msgPost |-> "", key |-> "jobs", wrap |-> FALSE],
    [name |-> "gorgias_get_job", op |-> "getJob", jsonArg |-> "none", success |-> "formatResponse",
     msgPre |-> "", msgId |-> FALSE, msgPost |-> "", key |-> "job", wrap |-> FALSE],
    [name |-> "gorgias_create_job", op |-> "createJob", jsonArg |-> "required", success |-> "message",
     msgPre |-> "Job created", msgId |-> FALSE, msgPost |-> "", key |-> "job", wrap |-> FALSE],
    [name |-> "gorgias_cancel_job", op |-> "cancelJob", jsonArg |-> "none", success |-> "message",
     msgPre |-> "Job ", msgId |-> TRUE, msgPost |-> " canceled", key |-> "", wrap |-> FALSE] >>

registerWidgetTools ==
  << [name |-> "gorgias_list_widgets", op |-> "listWidgets", jsonArg |-> "none", success |-> "formatResponse",
     msgPre |-> "", msgId |-> FALSE, msgPost |-> "", key |-> "widgets", wrap |-> TRUE],
    [name |-> "gorgias_get_widget", op |-> "getWidget", jsonArg |-> "none", success |-> "formatResponse",
     msgPre |-> "", msgId |-> FALSE, msgPost |-> "", key |-> "widget", wrap |-> FALSE],
    [name |-> "gorgias_create_widget", op |-> "createWidget", jsonArg |-> "none", success |-> "message",
     msgPre |-> "Widget created", msgId |-> FALSE, msgPost |-> "", key |-> "widget", wrap |-> FALSE],
    [name |-> "gorgias_update_widget", op |-> "updateWidget", jsonArg |-> "none", success |-> "message",
     msgPre |-> "Widget updated", msgId |-> FALSE, msgPost |-> "", key |-> "widget", wrap |-> FALSE],
    [name |-> "gorgias_delete_widget", op |-> "deleteWidget", jsonArg |-> "none", success |-> "message",
     msgPre |-> "Widget ", msgId |-> TRUE, msgPost |-> " deleted", key |-> "", wrap |-> FALSE] >>

(***************************************************************************)
(* The Worker entry point (index.ts).                                      *)
(***************************************************************************)
SERVER_NAME == "primrose-mcp-gorgias"
SERVER_VERSION == "1.0.0"
\* A catalogue in which the widget tools are not registered.
createStatelessServerWithoutWidgets(credentials) ==
    [ name |-> SERVER_NAME,
      version |-> SERVER_VERSION,
      client |-> createGorgiasClient(credentials),
      tools |-> registerAccountTools \o registerTicketTools \o registerMessageTools
                \o registerCustomerTools \o registerUserTools \o registerTeamTools
                \o registerTagTools \o registerMacroTools \o registerRuleTools
                \o registerIntegrationTools \o registerViewTools
                \o registerSatisfactionTools \o registerCustomFieldTools
                \o registerEventTools \o registerJobTools ]

\* A fresh McpServer with a fresh client and every tool group registered.
createStatelessServer(credentials) ==
    [ name |-> SERVER_NAME,
      version |-> SERVER_VERSION,
      client |-> createGorgiasClient(credentials),
      tools |-> registerAccountTools \o registerTicketTools \o registerMessageTools
                \o registerCustomerTools \o registerUserTools \o registerTeamTools
                \o registerTagTools \o registerMacroTools \o registerRuleTools
                \o registerIntegrationTools \o registerViewTools
                \o registerSatisfactionTools \o registerCustomFieldTools
                \o registerEventTools \o registerJobTools \o registerWidgetTools ]

\* The tool names the default response lists.
InfoToolNames ==
  << "gorgias_test_connection", "gorgias_get_account", "gorgias_get_statistics",
     "gorgias_list_tickets", "gorgias_get_ticket", "gorgias_create_ticket",
     "gorgias_update_ticket", "gorgias_delete_ticket", "gorgias_add_ticket_tags",
     "gorgias_remove_ticket_tags", "gorgias_list_messages", "gorgias_get_message",
     "gorgias_create_message", "gorgias_delete_message", "gorgias_list_customers",
     "gorgias_get_customer", "gorgias_create_customer", "gorgias_update_customer",
     "gorgias_delete_customer", "gorgias_merge_customers", "gorgias_list_users",
     "gorgias_get_user", "gorgias_list_teams", "gorgias_get_team",
     "gorgias_create_team", "gorgias_update_team", "gorgias_delete_team",
     "gorgias_list_tags", "gorgias_get_tag", "gorgias_create_tag",
     "gorgias_update_tag", "gorgias_delete_tag", "gorgias_merge_tags",
     "gorgias_list_macros", "gorgias_get_macro", "gorgias_create_macro",
     "gorgias_update_macro", "gorgias_delete_macro", "gorgias_list_rules",
     "gorgias_get_rule", "gorgias_create_rule", "gorgias_update_rule",
     "gorgias_delete_rule", "gorgias_list_integrations", "gorgias_get_integration",
     "gorgias_create_integration", "gorgias_update_integration", "gorgias_delete_integration",
     "gorgias_list_views", "gorgias_get_view", "gorgias_create_view",
     "gorgias_update_view", "gorgias_delete_view", "gorgias_list_view_items",
     "gorgias_list_satisfaction_surveys", "gorgias_get_satisfaction_survey", "gorgias_create_satisfaction_survey",
     "gorgias_list_custom_fields", "gorgias_get_custom_field", "gorgias_create_custom_field",
     "gorgias_update_custom_field", "gorgias_list_events", "gorgias_get_event",
     "gorgias_list_jobs", "gorgias_get_job", "gorgias_create_job",
     "gorgias_cancel_job", "gorgias_list_widgets", "gorgias_get_widget",
     "gorgias_create_widget", "gorgias_update_widget", "gorgias_delete_widget" >>

RequiredHeaderNames == <<"X-Gorgias-Domain", "X-Gorgias-Email", "X-Gorgias-API-Key">>

\* The body of the 401 the router answers when validation throws.
UnauthorizedBody(message) ==
    JSONstringify(JObj(<<
        <<"error", JStr("Unauthorized")>>,
        <<"message", JStr(message)>>,
        <<"required_headers", JArr([i \in 1..3 |-> JStr(RequiredHeaderNames[i])])>> >>))[1]

HealthBody ==
    JSONstringify(JObj(<< <<"status", JStr("ok")>>, <<"server", JStr(SERVER_NAME)>> >>))[1]

SseBody == "SSE endpoint requires Durable Objects. Enable in wrangler.jsonc."

InfoBody ==
    JSONstringify(JObj(<<
        <<"name", JStr(SERVER_NAME)>>,
        <<"version", JStr(SERVER_VERSION)>>,
        <<"description", JStr("Gorgias Helpdesk MCP Server - Multi-tenant")>>,
        <<"endpoints", JObj(<<
            <<"mcp", JStr("/mcp (POST) - Streamable HTTP MCP endpoint")>>,
            <<"health", JStr("/health - Health check")>> >>)>>,
        <<"authentication", JObj(<<
            <<"description", JStr("Pass tenant credentials via request headers")>>,
            <<"required_headers", JObj(<<
                <<"X-Gorgias-Domain",
                  JStr("Your Gorgias subdomain (e.g., \"mycompany\" for mycompany.gorgias.com)")>>,
                <<"X-Gorgias-Email", JStr("Your Gorgias account email")>>,
                <<"X-Gorgias-API-Key", JStr("Your Gorgias API key")>> >>)>> >>)>>,
        <<"tools", JArr([i \in 1..Len(InfoToolNames) |-> JStr(InfoToolNames[i])])>> >>))[1]
\* A router that checks the credentials of every request to /mcp, whatever
\* its method.
RouteMcpAnyMethod(req) ==
    IF req.path = "/health"
    THEN [delegate |-> FALSE, status |-> 200, body |-> HealthBody]
    ELSE IF req.path = "/mcp"
    THEN IF validateGorgiasCredentials(parseGorgiasCredentials(req)).threw
         THEN [delegate |-> FALSE, status |-> 401,
               body |-> UnauthorizedBody(
                   validateGorgiasCredentials(parseGorgiasCredentials(req)).message)]
         ELSE [delegate |-> TRUE, status |-> 0, body |-> ""]
    ELSE IF req.path = "/sse"
    THEN [delegate |-> FALSE, status |-> 501, body |-> SseBody]
    ELSE [delegate |-> FALSE, status |-> 200, body |-> InfoBody]

\* What fetch() decides for a request: a Response of its own, or the
\* delegation of the request to the protocol handler of a fresh server.
Route(req) ==
    IF req.path = "/health"
    THEN [delegate |-> FALSE, status |-> 200, body |-> HealthBody]
    ELSE IF req.path = "/mcp" /\ req.method = "POST"
    THEN LET credentials == parseGorgiasCredentials(req)
             checked == validateGorgiasCredentials(credentials)
         IN  IF checked.threw
             THEN [delegate |-> FALSE, status |-> 401, body |-> UnauthorizedBody(checked.message)]
             ELSE [delegate |-> TRUE, status |-> 0, body |-> ""]
    ELSE IF req.path = "/sse"
    THEN [delegate |-> FALSE, status |-> 501, body |-> SseBody]
    ELSE [delegate |-> FALSE, status |-> 200, body |-> InfoBody]

\* The Worker's fetch handler, up to the point where it returns its own
\* Response or hands the request to the protocol handler.
fetch(r, req) ==
    /\ pc[r] = "idle"
    /\ request' = [request EXCEPT ![r] = Some(req)]
    /\ LET route == Route(req)
       IN  IF route.delegate
           THEN /\ server' = [server EXCEPT ![r] =
                        Some(createStatelessServer(Credentials(parseGorgiasCredentials(req))))]
                /\ pc' = [pc EXCEPT ![r] = "serving"]
                /\ UNCHANGED httpResp
           ELSE /\ httpResp' = [httpResp EXCEPT ![r] =
                        Some([status |-> route.status, body |-> route.body])]
                /\ pc' = [pc EXCEPT ![r] = "responded"]
                /\ UNCHANGED server
    /\ UNCHANGED <<invocation, calls, response, raised, opResult, envelope, applied,
                   formatted, bodyReads>>

(***************************************************************************)
(* Errors. An error value records how it was constructed: its class, its   *)
(* message, and the status or pause passed to the constructor, if any.     *)
(* The classes themselves are those of utils/errors.ts: which of them are  *)
(* instances of GorgiasApiError, and which are retryable.                  *)
(***************************************************************************)
JsError(name, message) ==
    [name |-> name, message |-> message, statusCode |-> Null, retryAfterSeconds |-> Null]

GorgiasApiError(message, statusCode) ==
    [ name |-> "GorgiasApiError", message |-> message,
      statusCode |-> Some(statusCode), retryAfterSeconds |-> Null ]

RateLimitError(message, retryAfterSeconds) ==
    [ name |-> "RateLimitError", message |-> message,
      statusCode |-> Null, retryAfterSeconds |-> Some(retryAfterSeconds) ]

AuthenticationError(message) ==
    [ name |-> "AuthenticationError", message |-> message,
      statusCode |-> Null, retryAfterSeconds |-> Null ]

\* error instanceof GorgiasApiError
InstanceOfGorgiasApiError(error) ==
    error.name \in {"GorgiasApiError", "RateLimitError", "AuthenticationError"}

\* error.retryable: only the rate-limit failure is transient.
Retryable(error) == error.name = "RateLimitError"

\* The details object of an error envelope.
formatErrorForLogging(error) ==
    JObj(<< <<"name", JStr(error.name)>>, <<"message", JStr(error.message)>> >>)

\* The outcome of a computation that may throw.
Throw(error) == [threw |-> TRUE, error |-> Some(error), value |-> JUndefined]
Return(value) == [threw |-> FALSE, error |-> Null, value |-> value]

\* The rest of a computation after a step that may have thrown: what was
\* thrown propagates, a returned value is passed on.
Bind(outcome, Rest(_)) == IF outcome.threw THEN outcome ELSE Rest(outcome.value)

(***************************************************************************)
(* JSON.parse and parseInt.                                                *)
(***************************************************************************)
\* The JSON values whose compact text the model's upstream and callers send.
WireEntity ==
    JObj(<< <<"id", JNum(7)>>, <<"messages", JArr(<<>>)>>, <<"attachments", JArr(<<>>)>>,
            <<"channels", JArr(<<>>)>>, <<"meta", JObj(<<>>)>> >>)

\* An object of HTTP headers a caller may pass as httpHeadersJson.
SomeHeaders == JObj(<< <<"X-Token", JStr("t")>> >>)

KnownJson ==
    << JNull, JNum(42), JObj(<<>>), JArr(<<>>),
      JObj(<< <<"message", JStr("boom")>> >>),
      JObj(<< <<"error", JStr("bad request")>> >>),
      JObj(<< <<"message", JStr("boom")>>, <<"error", JStr("bad request")>> >>),
      JObj(<< <<"message", JStr("")>>, <<"error", JStr("bad request")>> >>),
      JObj(<< <<"message", JStr("")>> >>),
      WireEntity,
      JObj(<< <<"data", JArr(<<>>)>> >>),
      JObj(<< <<"data", JArr(<<WireEntity>>)>>,
              <<"meta", JObj(<< <<"next_cursor", JStr("c2")>> >>)>> >>),
      JObj(<< <<"data", JArr(<<WireEntity, WireEntity>>)>>,
              <<"meta", JObj(<< <<"next_cursor", JNull>> >>)>> >>),
      SomeHeaders >>

TextOf(v) == StringifyValue(v, "", "")

\* JSON.parse: the value whose text this is; a SyntaxError for a text that is
\* not JSON (every text of the model that is not the text of a known value).
JSONparse(text) ==
    IF \E i \in 1..Len(KnownJson) : TextOf(KnownJson[i]) = text
    THEN Return(KnownJson[CHOOSE i \in 1..Len(KnownJson) : TextOf(KnownJson[i]) = text])
    ELSE Throw(JsError("SyntaxError", "Unexpected token in JSON"))

NaN == <<>>
Number(n) == <<n>>

RECURSIVE SkipWhitespace(_)
SkipWhitespace(s) ==
    IF Len(s) > 0 /\ CharAt(s, 1) = " " THEN SkipWhitespace(SubSeq(s, 2, Len(s))) ELSE s

\* The value of the longest prefix of decimal digits of s, given the value
\* acc of the digits read so far.
RECURSIVE DigitsValue(_, _)
DigitsValue(s, acc) ==
    IF Len(s) > 0 /\ IsDigit(CharAt(s, 1))
    THEN DigitsValue(SubSeq(s, 2, Len(s)), acc * 10 + DigitValue(CharAt(s, 1)))
    ELSE acc

\* parseInt(s, 10): leading whitespace skipped, an optional sign, then the
\* longest run of digits; NaN when there is no digit.
parseInt(s) ==
    LET t == SkipWhitespace(s)
        signed == Len(t) > 0 /\ CharAt(t, 1) \in {"+", "-"}
        sign == IF signed /\ CharAt(t, 1) = "-" THEN -1 ELSE 1
        digits == IF signed THEN SubSeq(t, 2, Len(t)) ELSE t
    IN  IF Len(digits) > 0 /\ IsDigit(CharAt(digits, 1))
        THEN Number(sign * DigitsValue(digits, 0))
        ELSE NaN

(***************************************************************************)
(* The single request path of the client: GorgiasClientImpl.request.       *)
(***************************************************************************)
\* The pause assumed when a 429 carries no Retry-After header.
DefaultRetryAfter == 60

\* Response.ok
ResponseOk(status) == status >= 200 /\ status <= 299

\* value[key] for a value that is not null or undefined.
Prop(v, key) == IF IsObj(v) THEN GetField(v, key) ELSE JUndefined

\* String(v) for the message taken from an error body.
MessageText(v) == IF IsStr(v) THEN v.str ELSE TextOf(v)

\* A pause that ignores the Retry-After header.
RetryAfterPauseIgnoringHeader(retryAfter) == Number(DefaultRetryAfter)

\* retryAfter ? parseInt(retryAfter, 10) : 60
RetryAfterPause(retryAfter) ==
    IF Truthy(retryAfter) THEN parseInt(retryAfter[1]) ELSE Number(DefaultRetryAfter)

\* A message that prefers the error field over the message field.
ApiErrorMessageErrorFirst(status, errorBody) ==
    LET default == "API error: " \o ToString(status)
        errorJson == JSONparse(errorBody)
    IN  IF errorJson.threw \/ IsNullish(errorJson.value) THEN default
        ELSE IF TruthyValue(Prop(errorJson.value, "error"))
             THEN MessageText(Prop(errorJson.value, "error"))
        ELSE IF TruthyValue(Prop(errorJson.value, "message"))
             THEN MessageText(Prop(errorJson.value, "message"))
        ELSE default

\* The message of the generic failure: errorJson.message || errorJson.error
\* || "API error: {status}", the last also when the body does not parse or
\* reading a property of the parsed value throws (the value is null).
ApiErrorMessage(status, errorBody) ==
    LET default == "API error: " \o ToString(status)
        errorJson == JSONparse(errorBody)
    IN  IF errorJson.threw \/ IsNullish(errorJson.value) THEN default
        ELSE IF TruthyValue(Prop(errorJson.value, "message"))
             THEN MessageText(Prop(errorJson.value, "message"))
        ELSE IF TruthyValue(Prop(errorJson.value, "error"))
             THEN MessageText(Prop(errorJson.value, "error"))
        ELSE default

\* A classification that takes 403 for a generic failure.
requestSettled401Only(outcome) ==
    IF outcome.kind = "network_error"
    THEN Throw(JsError("TypeError", "fetch failed"))
    ELSE IF outcome.status = 429
    THEN Throw(RateLimitError("Rate limit exceeded", RetryAfterPause(outcome.retryAfter)))
    ELSE IF outcome.status = 401
    THEN Throw(AuthenticationError("Authentication failed. Check your Gorgias credentials."))
    ELSE IF ~ResponseOk(outcome.status)
    THEN Throw(GorgiasApiError(ApiErrorMessage(outcome.status, outcome.body), outcome.status))
    ELSE IF outcome.status = 204
    THEN Return(JUndefined)
    ELSE JSONparse(outcome.body)

\* request() from the point where the awaited fetch settles: a rejected
\* fetch rethrows; a response is classified by its status, and only then is
\* a body read.
requestSettled(outcome) ==
    IF outcome.kind = "network_error"
    THEN Throw(JsError("TypeError", "fetch failed"))
    ELSE IF outcome.status = 429
    THEN Throw(RateLimitError("Rate limit exceeded", RetryAfterPause(outcome.retryAfter)))
    ELSE IF outcome.status = 401 \/ outcome.status = 403
    THEN Throw(AuthenticationError("Authentication failed. Check your Gorgias credentials."))
    ELSE IF ~ResponseOk(outcome.status)
    THEN Throw(GorgiasApiError(ApiErrorMessage(outcome.status, outcome.body), outcome.status))
    ELSE IF outcome.status = 204
    THEN Return(JUndefined)
    ELSE JSONparse(outcome.body)
\* A request() that reads the body as text before it looks at the status.
bodyReadTextFirst(outcome) ==
    IF outcome.kind = "network_error" THEN <<>>
    ELSE IF ~ResponseOk(outcome.status) THEN <<"text", "parse">>
    ELSE IF outcome.status = 204 THEN <<>>
    ELSE <<"json">>

\* The reads request() makes of the response body on its way to that end,
\* in order: response.text() ("text") followed by JSON.parse of the text
\* ("parse") for a failure status that is not 429, 401 or 403, and
\* response.json() ("json") for a success status other than 204.
bodyRead(outcome) ==
    IF outcome.kind = "network_error" THEN <<>>
    ELSE IF outcome.status = 429 THEN <<>>
    ELSE IF outcome.status = 401 \/ outcome.status = 403 THEN <<>>
    ELSE IF ~ResponseOk(outcome.status) THEN <<"text", "parse">>
    ELSE IF outcome.status = 204 THEN <<>>
    ELSE <<"json">>

\* s with the first occurrence of pattern replaced.
ReplaceFirst(s, pattern, replacement) ==
    LET i == IndexOf(s, pattern)
    IN  IF i = 0 THEN s
        ELSE SubSeq(s, 1, i - 1) \o replacement \o SubSeq(s, i + Len(pattern), Len(s))

(***************************************************************************)
(* The request bodies of the update operations. Each field of an update    *)
(* tool is described by the argument the caller sets, the wire name it is  *)
(* sent under, the test the code makes before sending it ("truthy": if     *)
(* (input.x); "defined": input.x !== undefined, or a member that           *)
(* JSON.stringify drops when undefined), the shape it is sent in, and the  *)
(* values the tool's schema lets a caller supply (none for an input member *)
(* the tool never sets).                                                   *)
(***************************************************************************)
Field(arg, wire, guard, shape, values) ==
    [arg |-> arg, wire |-> wire, guard |-> guard, shape |-> shape, values |-> values]

StringValues == <<JStr("x"), JStr("")>>
EnumValues == <<JStr("open")>>
IntegerValues == <<JNum(5), JNum(0)>>
NullableIntegerValues == <<JNum(5), JNum(0), JNull>>
NullableStringValues == <<JStr("x"), JNull>>
BooleanValues == <<JTrue, JFalse>>
ArrayValues == <<JArr(<<JNum(3)>>), JArr(<<>>)>>
NeverSet == <<>>

UpdateFields ==
  [ updateTicket |-> <<
        Field("status", "status", "truthy", "value", EnumValues),
        Field("priority", "priority", "truthy", "value", EnumValues),
        Field("assigneeUserId", "assignee_user", "defined", "ref", NullableIntegerValues),
        Field("assigneeTeamId", "assignee_team", "defined", "ref", NullableIntegerValues),
        Field("snoozeUntilDatetime", "snooze_datetime", "defined", "value", NullableStringValues) >>,
    updateCustomer |-> <<
        Field("email", "email", "defined", "value", <<JStr("x")>>),
        Field("name", "name", "defined", "value", StringValues),
        Field("firstname", "firstname", "defined", "value", StringValues),
        Field("lastname", "lastname", "defined", "value", StringValues),
        Field("externalId", "external_id", "defined", "value", StringValues),
        Field("note", "note", "defined", "value", StringValues),
        Field("language", "language", "defined", "value", StringValues),
        Field("timezone", "timezone", "defined", "value", StringValues),
        Field("data", "data", "defined", "value", NeverSet) >>,
    updateTeam |-> <<
        Field("name", "name", "truthy", "value", StringValues),
        Field("description", "description", "defined", "value", StringValues),
        Field("decoration", "decoration", "truthy", "value", NeverSet),
        Field("memberIds", "members", "truthy", "ids", ArrayValues) >>,
    updateTag |-> <<
        Field("name", "name", "defined", "value", StringValues),
        Field("description", "description", "defined", "value", StringValues),
        Field("color", "decoration", "truthy", "color", StringValues) >>,
    updateMacro |-> <<
        Field("name", "name", "defined", "value", StringValues),
        Field("actionsJson", "actions", "defined", "json", NeverSet),
        Field("intent", "intent", "defined", "value", StringValues),
        Field("language", "language", "defined", "value", StringValues) >>,
    updateRule |-> <<
        Field("name", "name", "truthy", "value", StringValues),
        Field("description", "description", "defined", "value", StringValues),
        Field("code", "code", "defined", "value", StringValues),
        Field("codeAstJson", "code_ast", "defined", "json", NeverSet),
        Field("eventTypes", "event_types", "truthy", "value", StringValues),
        Field("priority", "priority", "defined", "value", IntegerValues) >>,
    updateIntegration |-> <<
        Field("name", "name", "defined", "value", StringValues) >>,
    updateView |-> <<
        Field("name", "name", "truthy", "value", StringValues),
        Field("filters", "filters", "defined", "value", StringValues),
        Field("orderBy", "order_by", "defined", "value", StringValues),
        Field("orderDir", "order_dir", "defined", "value", <<JStr("asc")>>),
        Field("visibility", "visibility", "truthy", "value", <<JStr("public")>>),
        Field("fields", "fields", "truthy", "value", <<JArr(<<JStr("id")>>), JArr(<<>>)>>),
        Field("decoration", "decoration", "truthy", "value", NeverSet) >>,
    updateCustomField |-> <<
        Field("label", "label", "truthy", "value", StringValues),
        Field("description", "description", "defined", "value", StringValues),
        Field("priority", "priority", "defined", "value", IntegerValues),
        Field("required", "required", "defined", "value", BooleanValues),
        Field("definition", "definition", "truthy", "value", NeverSet) >>,
    updateWidget |-> <<
        Field("context", "context", "truthy", "value", <<JStr("ticket")>>),
        Field("template", "template", "truthy", "value", StringValues),
        Field("order", "order", "defined", "value", IntegerValues),
        Field("integrationId", "integration_id", "defined", "value", NeverSet) >> ]

UpdateOperations == DOMAIN UpdateFields

\* The value the handler holds for a field: what the caller supplied for the
\* argument, undefined when the caller left it unset; for the free-text JSON
\* argument, text ? JSON.parse(text) : undefined.
InputValue(field, args) ==
    IF field.shape = "json"
    THEN IF Truthy(args.json) THEN JSONparse(args.json[1]).value ELSE JUndefined
    ELSE IF \E i \in 1..Len(args.fields) : args.fields[i][1] = field.arg
    THEN args.fields[CHOOSE i \in 1..Len(args.fields) : args.fields[i][1] = field.arg][2]
    ELSE JUndefined

\* The value a field is sent as.
WireValue(field, v) ==
    IF field.shape = "ref" THEN (IF TruthyValue(v) THEN JObj(<< <<"id", v>> >>) ELSE JNull)
    ELSE IF field.shape = "ids"
    THEN JArr([i \in 1..Len(v.arr) |-> JObj(<< <<"id", v.arr[i]>> >>)])
    ELSE IF field.shape = "color" THEN JObj(<< <<"color", v>> >>)
    ELSE v

\* A body that sends null for every field that does not pass its test.
BodyMemberNullWhenUnset(field, v) ==
    IF (field.guard = "truthy" /\ TruthyValue(v)) \/ (field.guard = "defined" /\ ~IsUndefined(v))
    THEN << <<field.wire, WireValue(field, v)>> >>
    ELSE << <<field.wire, JNull>> >>

\* The member of the request body a field contributes: none when the field
\* does not pass its test.
BodyMember(field, v) ==
    IF (field.guard = "truthy" /\ TruthyValue(v)) \/ (field.guard = "defined" /\ ~IsUndefined(v))
    THEN << <<field.wire, WireValue(field, v)>> >>
    ELSE <<>>

RECURSIVE BodyMembers(_, _)
BodyMembers(fields, args) ==
    IF fields = <<>> THEN <<>>
    ELSE BodyMember(Head(fields), InputValue(Head(fields), args))
         \o BodyMembers(Tail(fields), args)
\* The value the handler destructures for a named argument from its input:
\* undefined when the caller left the argument out.
Argument(args, name) == InputValue([shape |-> "value", arg |-> name], args)

\* The body createMacro sends: {name, actions, intent, language}, with
\* actions the value the handler parsed from actionsJson, whatever it is.
createMacroBody(args) ==
    JObj(<< <<"name", Argument(args, "name")>>,
            <<"actions", JSONparse(args.json[1]).value>>,
            <<"intent", Argument(args, "intent")>>,
            <<"language", Argument(args, "language")>> >>)

\* The http member the handler of gorgias_create_integration passes on:
\* httpHeaders = httpHeadersJson ? JSON.parse(httpHeadersJson) : {}, then
\* httpUrl ? {url, method: httpMethod || "POST", headers: httpHeaders,
\*            triggers: {}} : undefined
IntegrationHttp(args) ==
    LET httpHeaders == IF Truthy(args.json) THEN JSONparse(args.json[1]).value
                       ELSE JObj(<<>>)
    IN  IF TruthyValue(Argument(args, "httpUrl"))
        THEN JObj(<< <<"url", Argument(args, "httpUrl")>>,
                     <<"method", IF TruthyValue(Argument(args, "httpMethod"))
                                 THEN Argument(args, "httpMethod") ELSE JStr("POST")>>,
                     <<"headers", httpHeaders>>,
                     <<"triggers", JObj(<<>>)>> >>)
        ELSE JUndefined

\* The body createIntegration sends: {name, type, http}
createIntegrationBody(args) ==
    JObj(<< <<"name", Argument(args, "name")>>,
            <<"type", Argument(args, "type")>>,
            <<"http", IntegrationHttp(args)>> >>)

\* The body an operation sends: JSON.stringify(body) for an update, for
\* createMacro and for createIntegration, none for a read or a delete (the
\* bodies of the other create operations are left out).
RequestBody(op, args) ==
    IF op \in UpdateOperations
    THEN JSONstringify(JObj(BodyMembers(UpdateFields[op], args)))
    ELSE IF op = "createMacro" THEN JSONstringify(createMacroBody(args))
    ELSE IF op = "createIntegration" THEN JSONstringify(createIntegrationBody(args))
    ELSE Null

\* The query string of a paginated list operation, as URLSearchParams
\* renders it: "limit=N" when params.limit is truthy, nothing otherwise
\* (the cursor and the filters are left unset).
queryParams(params) ==
    IF params.limit # Null /\ params.limit[1] # 0
    THEN "limit=" \o ToString(params.limit[1])
    ELSE ""
\* The endpoint a client operation passes to request(): the path with the id
\* interpolated, followed for a paginated list by "?" and the query string.
Endpoint(op, args) ==
    ReplaceFirst(GorgiasClientImpl[op].path, ":id", ToString(args.id))
    \o (IF GorgiasClientImpl[op].returns = "page" THEN "?" \o queryParams(args) ELSE "")

\* The HTTP call request() issues for an operation of a client.
UpstreamCall(client, op, args) ==
    [ url |-> getBaseUrl(client) \o Endpoint(op, args),
      method |-> GorgiasClientImpl[op].http,
      headers |-> getAuthHeaders(client),
      body |-> RequestBody(op, args) ]

\* A request() that issues its call twice.
sendTwice(issued, call) == issued \o <<call, call>>

\* await fetch(url, ...): one call issued.
send(issued, call) == Append(issued, call)

(***************************************************************************)
(* The client operations, from the result of request() to their result.    *)
(***************************************************************************)
PropertyOfNullish == JsError("TypeError", "Cannot read properties of undefined")

\* The fields of the wire records, by raw type (the getAccount and getStatistic
\* entries are the inline response types of those operations).
RawFields ==
  [
    RawTicket |->
      <<
         "id", "external_id", "subject", "status", "priority", "channel", "via", "from_agent",
         "customer", "assignee_user", "assignee_team", "messages_count", "is_unread", "spam",
         "created_datetime", "updated_datetime", "opened_datetime", "closed_datetime",
         "last_received_message_datetime", "last_message_datetime", "snooze_datetime", "tags",
         "uri" >>,
    RawTicketWithMessages |->
      <<
         "id", "external_id", "subject", "status", "priority", "channel", "via", "from_agent",
         "customer", "assignee_user", "assignee_team", "messages_count", "is_unread", "spam",
         "created_datetime", "updated_datetime", "opened_datetime", "closed_datetime",
         "last_received_message_datetime", "last_message_datetime", "snooze_datetime", "tags",
         "uri", "messages" >>,
    RawMessage |->
      <<
         "id", "ticket_id", "channel", "via", "from_agent", "sender", "receiver", "subject",
         "body_text", "body_html", "stripped_text", "stripped_html", "public_html",
         "attachments", "actions", "headers", "macro_id", "rule_id", "integrations",
         "created_datetime", "sent_datetime", "failed_datetime", "opened_datetime", "uri" >>,
    RawCustomer |->
      <<
         "id", "external_id", "email", "name", "firstname", "lastname", "note", "language",
         "timezone", "data", "channels", "integrations", "meta", "tickets_count",
         "created_datetime", "updated_datetime", "uri" >>,
    RawUser |->
      <<
         "id", "external_id", "email", "name", "firstname", "lastname", "role", "bio",
         "active", "timezone", "language", "country", "meta", "created_datetime",
         "updated_datetime", "uri" >>,
    RawTeam |->
      <<
         "id", "name", "description", "decoration", "members", "created_datetime", "uri" >>,
    RawTag |->
      <<
         "id", "name", "description", "decoration", "usage", "created_datetime",
         "deleted_datetime", "uri" >>,
    RawMacro |->
      <<
         "id", "external_id", "name", "intent", "language", "usage", "actions",
         "created_datetime", "updated_datetime", "archived_datetime", "uri" >>,
    RawRule |->
      <<
         "id", "name", "description", "code", "code_ast", "event_types", "priority",
         "created_datetime", "updated_datetime", "deactivated_datetime", "uri" >>,
    RawIntegration |->
      <<
         "id", "name", "type", "http", "created_datetime", "updated_datetime", "managed",
         "business_hours_id", "uri" >>,
    RawView |->
      <<
         "id", "name", "slug", "filters", "order_by", "order_dir", "visibility", "fields",
         "decoration", "created_datetime", "updated_datetime", "uri" >>,
    RawSatisfactionSurvey |->
      <<
         "id", "score", "body_text", "customer_id", "ticket_id", "meta", "created_datetime",
         "sent_datetime", "scored_datetime", "should_send_datetime", "uri" >>,
    RawCustomField |->
      <<
         "id", "external_id", "object_type", "label", "description", "priority", "required",
         "managed_type", "definition", "created_datetime", "updated_datetime",
         "deactivated_datetime", "uri" >>,
    RawEvent |->
      <<
         "id", "context", "type", "object_id", "object_type", "user_id", "data",
         "created_datetime", "uri" >>,
    RawJob |->
      <<
         "id", "type", "status", "params", "info", "scheduled_datetime", "completed_datetime",
         "created_datetime", "updated_datetime", "uri" >>,
    RawWidget |->
      <<
         "id", "context", "template", "order", "integration_id", "app_id", "created_datetime",
         "updated_datetime", "uri" >>,
    getAccount |->
      <<
         "domain", "status", "settings", "created_datetime", "deactivated_datetime" >>,
    getStatistic |->
      <<
         "data", "meta" >>,
    statisticMeta |->
      <<
         "start_datetime", "end_datetime", "previous_start_datetime", "previous_end_datetime" >>,
    attachment |->
      <<
         "url", "name", "size", "content_type" >>,
    channel |->
      <<
         "id", "type", "address", "preferred", "created_datetime" >> ]

\* The mapping functions: the raw type each reads and, for every member of
\* the object it returns, the member's name, the wire field it is read
\* from, and how the value is taken: copied ("copy"), mapped element by
\* element by another mapping ("each"), or mapped as one object ("object").
M(internal, wire) == <<internal, wire, "copy", "">>
Mappers ==
  [
    mapTicket |-> [raw |-> "RawTicket", members |->
      <<
         M("id", "id"), M("externalId", "external_id"), M("subject", "subject"),
         M("status", "status"), M("priority", "priority"), M("channel", "channel"),
         M("via", "via"), M("fromAgent", "from_agent"), M("customer", "customer"),
         M("assigneeUser", "assignee_user"), M("assigneeTeam", "assignee_team"),
         M("messagesCount", "messages_count"), M("isUnread", "is_unread"),
         M("spamStatus", "spam"), M("createdDatetime", "created_datetime"),
         M("updatedDatetime", "updated_datetime"), M("openedDatetime", "opened_datetime"),
         M("closedDatetime", "closed_datetime"),
         M("lastReceivedMessageDatetime", "last_received_message_datetime"),
         M("lastMessageDatetime", "last_message_datetime"),
         M("snoozeUntilDatetime", "snooze_datetime"), M("tags", "tags"), M("uri", "uri") >>],
    mapTicketWithMessages |-> [raw |-> "RawTicketWithMessages", members |->
      <<
         M("id", "id"), M("externalId", "external_id"), M("subject", "subject"),
         M("status", "status"), M("priority", "priority"), M("channel", "channel"),
         M("via", "via"), M("fromAgent", "from_agent"), M("customer", "customer"),
         M("assigneeUser", "assignee_user"), M("assigneeTeam", "assignee_team"),
         M("messagesCount", "messages_count"), M("isUnread", "is_unread"),
         M("spamStatus", "spam"), M("createdDatetime", "created_datetime"),
         M("updatedDatetime", "updated_datetime"), M("openedDatetime", "opened_datetime"),
         M("closedDatetime", "closed_datetime"),
         M("lastReceivedMessageDatetime", "last_received_message_datetime"),
         M("lastMessageDatetime", "last_message_datetime"),
         M("snoozeUntilDatetime", "snooze_datetime"), M("tags", "tags"), M("uri", "uri"),
         <<"messages", "messages", "each", "mapMessage">> >>],
    mapMessage |-> [raw |-> "RawMessage", members |->
      <<
         M("id", "id"), M("ticketId", "ticket_id"), M("channel", "channel"), M("via", "via"),
         M("fromAgent", "from_agent"), M("sender", "sender"), M("receiver", "receiver"),
         M("subject", "subject"), M("bodyText", "body_text"), M("bodyHtml", "body_html"),
         M("strippedText", "stripped_text"), M("strippedHtml", "stripped_html"),
         M("publicHtml", "public_html"),
         <<"attachments", "attachments", "each", "attachment">>, M("actions", "actions"),
         M("headers", "headers"), M("macroId", "macro_id"), M("ruleId", "rule_id"),
         M("integrationsData", "integrations"), M("createdDatetime", "created_datetime"),
         M("sentDatetime", "sent_datetime"), M("failedDatetime", "failed_datetime"),
         M("openedDatetime", "opened_datetime"), M("uri", "uri") >>],
    attachment |-> [raw |-> "attachment", members |->
      <<
         M("url", "url"), M("name", "name"), M("size", "size"), M("contentType", "content_type") >>],
    mapCustomer |-> [raw |-> "RawCustomer", members |->
      <<
         M("id", "id"), M("externalId", "external_id"), M("email", "email"), M("name", "name"),
         M("firstname", "firstname"), M("lastname", "lastname"), M("note", "note"),
         M("language", "language"), M("timezone", "timezone"), M("data", "data"),
         <<"channels", "channels", "each", "channel">>, M("integrations", "integrations"),
         M("meta", "meta"), M("ticketsCount", "tickets_count"),
         M("createdDatetime", "created_datetime"), M("updatedDatetime", "updated_datetime"),
         M("uri", "uri") >>],
    channel |-> [raw |-> "channel", members |->
      <<
         M("id", "id"), M("type", "type"), M("address", "address"),
         M("preferred", "preferred"), M("createdDatetime", "created_datetime") >>],
    mapUser |-> [raw |-> "RawUser", members |->
      <<
         M("id", "id"), M("externalId", "external_id"), M("email", "email"), M("name", "name"),
         M("firstname", "firstname"), M("lastname", "lastname"), M("role", "role"),
         M("bio", "bio"), M("active", "active"), M("timezone", "timezone"),
         M("language", "language"), M("country", "country"), M("meta", "meta"),
         M("createdDatetime", "created_datetime"), M("updatedDatetime", "updated_datetime"),
         M("uri", "uri") >>],
    mapTeam |-> [raw |-> "RawTeam", members |->
      <<
         M("id", "id"), M("name", "name"), M("description", "description"),
         M("decoration", "decoration"), M("members", "members"),
         M("createdDatetime", "created_datetime"), M("uri", "uri") >>],
    mapTag |-> [raw |-> "RawTag", members |->
      <<
         M("id", "id"), M("name", "name"), M("description", "description"),
         M("decoration", "decoration"), M("usage", "usage"),
         M("createdDatetime", "created_datetime"), M("deletedDatetime", "deleted_datetime"),
         M("uri", "uri") >>],
    mapMacro |-> [raw |-> "RawMacro", members |->
      <<
         M("id", "id"), M("externalId", "external_id"), M("name", "name"),
         M("intent", "intent"), M("language", "language"), M("usage", "usage"),
         M("actions", "actions"), M("createdDatetime", "created_datetime"),
         M("updatedDatetime", "updated_datetime"), M("archivedDatetime", "archived_datetime"),
         M("uri", "uri") >>],
    mapRule |-> [raw |-> "RawRule", members |->
      <<
         M("id", "id"), M("name", "name"), M("description", "description"), M("code", "code"),
         M("codeAst", "code_ast"), M("eventTypes", "event_types"), M("priority", "priority"),
         M("createdDatetime", "created_datetime"), M("updatedDatetime", "updated_datetime"),
         M("deactivatedDatetime", "deactivated_datetime"), M("uri", "uri") >>],
    mapIntegration |-> [raw |-> "RawIntegration", members |->
      <<
         M("id", "id"), M("name", "name"), M("type", "type"), M("http", "http"),
         M("createdDatetime", "created_datetime"), M("updatedDatetime", "updated_datetime"),
         M("managed", "managed"), M("businessHoursId", "business_hours_id"), M("uri", "uri") >>],
    mapView |-> [raw |-> "RawView", members |->
      <<
         M("id", "id"), M("name", "name"), M("slug", "slug"), M("filters", "filters"),
         M("orderBy", "order_by"), M("orderDir", "order_dir"), M("visibility", "visibility"),
         M("fields", "fields"), M("decoration", "decoration"),
         M("createdDatetime", "created_datetime"), M("updatedDatetime", "updated_datetime"),
         M("uri", "uri") >>],
    mapSatisfactionSurvey |-> [raw |-> "RawSatisfactionSurvey", members |->
      <<
         M("id", "id"), M("score", "score"), M("bodyText", "body_text"),
         M("customerId", "customer_id"), M("ticketId", "ticket_id"), M("meta", "meta"),
         M("createdDatetime", "created_datetime"), M("sentDatetime", "sent_datetime"),
         M("scoredDatetime", "scored_datetime"),
         M("shouldSendDatetime", "should_send_datetime"), M("uri", "uri") >>],
    mapCustomField |-> [raw |-> "RawCustomField", members |->
      <<
         M("id", "id"), M("externalId", "external_id"), M("objectType", "object_type"),
         M("label", "label"), M("description", "description"), M("priority", "priority"),
         M("required", "required"), M("managedType", "managed_type"),
         M("definition", "definition"), M("createdDatetime", "created_datetime"),
         M("updatedDatetime", "updated_datetime"),
         M("deactivatedDatetime", "deactivated_datetime"), M("uri", "uri") >>],
    mapEvent |-> [raw |-> "RawEvent", members |->
      <<
         M("id", "id"), M("context", "context"), M("type", "type"), M("objectId", "object_id"),
         M("objectType", "object_type"), M("userId", "user_id"), M("data", "data"),
         M("createdDatetime", "created_datetime"), M("uri", "uri") >>],
    mapJob |-> [raw |-> "RawJob", members |->
      <<
         M("id", "id"), M("type", "type"), M("status", "status"), M("params", "params"),
         M("info", "info"), M("scheduledDatetime", "scheduled_datetime"),
         M("completedDatetime", "completed_datetime"),
         M("createdDatetime", "created_datetime"), M("updatedDatetime", "updated_datetime"),
         M("uri", "uri") >>],
    mapWidget |-> [raw |-> "RawWidget", members |->
      <<
         M("id", "id"), M("context", "context"), M("template", "template"),
         M("order", "order"), M("integrationId", "integration_id"), M("appId", "app_id"),
         M("createdDatetime", "created_datetime"), M("updatedDatetime", "updated_datetime"),
         M("uri", "uri") >>],
    getAccount |-> [raw |-> "getAccount", members |->
      <<
         M("domain", "domain"), M("status", "status"), M("settings", "settings"),
         M("createdDatetime", "created_datetime"),
         M("deactivatedDatetime", "deactivated_datetime") >>],
    getStatistic |-> [raw |-> "getStatistic", members |->
      <<
         M("data", "data"), <<"meta", "meta", "object", "statisticMeta">> >>],
    statisticMeta |-> [raw |-> "statisticMeta", members |->
      <<
         M("startDatetime", "start_datetime"), M("endDatetime", "end_datetime"),
         M("previousStartDatetime", "previous_start_datetime"),
         M("previousEndDatetime", "previous_end_datetime") >>] ]

\* mapX(raw): reading a member of a null or undefined record throws, as
\* does mapping the elements of a field that is not an array or the members
\* of a nested object that is null or undefined; a field the record lacks is
\* copied as undefined.
RECURSIVE mapRaw(_, _)
mapRaw(mapper, raw) ==
    LET members == Mappers[mapper].members
        Elements(i) == Prop(raw, members[i][2]).arr
        Nested(i) ==
            IF members[i][3] = "each"
            THEN [j \in 1..Len(Elements(i)) |-> mapRaw(members[i][4], Elements(i)[j])]
            ELSE <<mapRaw(members[i][4], Prop(raw, members[i][2]))>>
        Throws(i) ==
            /\ members[i][3] # "copy"
            /\ \/ members[i][3] = "each" /\ ~IsArr(Prop(raw, members[i][2]))
               \/ \E j \in 1..Len(Nested(i)) : Nested(i)[j].threw
        Value(i) ==
            IF members[i][3] = "copy" THEN Prop(raw, members[i][2])
            ELSE IF members[i][3] = "each"
            THEN JArr([j \in 1..Len(Nested(i)) |-> Nested(i)[j].value])
            ELSE Nested(i)[1].value
    IN  IF IsNullish(raw) \/ \E i \in 1..Len(members) : Throws(i)
        THEN Throw(PropertyOfNullish)
        ELSE Return(JObj([i \in 1..Len(members) |-> <<members[i][1], Value(i)>>]))

\* The mapping a client operation applies to a wire record.
mapEntity(op, raw) == mapRaw(GorgiasClientImpl[op].mapper, raw)

\* data.data.map(mapX)
mapItems(op, data) ==
    IF IsNullish(data) \/ ~IsArr(Prop(data, "data")) THEN Throw(PropertyOfNullish)
    ELSE LET rows == Prop(data, "data").arr
         IN  IF \E i \in 1..Len(rows) : mapEntity(op, rows[i]).threw
             THEN Throw(PropertyOfNullish)
             ELSE Return(JArr([i \in 1..Len(rows) |-> mapEntity(op, rows[i]).value]))
\* A cursor that is never passed on.
NextCursorDropped(data) == JUndefined

\* data.meta?.next_cursor
NextCursor(data) ==
    IF IsNullish(Prop(data, "meta")) THEN JUndefined
    ELSE Prop(Prop(data, "meta"), "next_cursor")

\* What the client operation returns to the handler, given how request()
\* ended. testConnection catches every failure and reports it as a result.
clientOperation(op, requested) ==
    LET returns == GorgiasClientImpl[op].returns
    IN  IF returns = "connection"
        THEN IF requested.threw
             THEN Return(JObj(<< <<"connected", JFalse>>,
                                 <<"message", JStr(requested.error[1].message)>> >>))
             ELSE Return(JObj(<< <<"connected", JTrue>>,
                                 <<"message", JStr("Successfully connected to Gorgias")>> >>))
        ELSE IF requested.threw THEN requested
        ELSE IF returns = "void" THEN Return(JUndefined)
        ELSE IF returns = "entity" THEN mapEntity(op, requested.value)
        ELSE LET items == mapItems(op, requested.value)
             IN  IF items.threw THEN items
                 ELSE IF returns = "array" THEN items
                 ELSE Return(JObj(<< <<"items", items.value>>,
                                     <<"nextCursor", NextCursor(requested.value)>> >>))

(***************************************************************************)
(* Tool responses (utils/formatters.ts) and the tool handlers.             *)
(***************************************************************************)
TextContent(text) == <<[type |-> "text", text |-> text]>>

\* String(v) and the ${v} of a template literal.
RECURSIVE String(_)
String(v) ==
    IF IsLit(v) THEN v.lit
    ELSE IF IsStr(v) THEN v.str
    ELSE IF IsNum(v) THEN ToString(v.num)
    ELSE IF IsArr(v)
    THEN Join([i \in 1..Len(v.arr) |->
                  IF IsNullish(v.arr[i]) THEN "" ELSE String(v.arr[i])], ",")
    ELSE "[object Object]"

\* a || b and a ?? b
Or(a, b) == IF TruthyValue(a) THEN a ELSE b
Coalesce(a, b) == IF IsNullish(a) THEN b ELSE a

\* value?.key
OptionalProp(v, key) == IF IsNullish(v) THEN JUndefined ELSE Prop(v, key)

\* value.length
LengthOf(v) ==
    IF IsStr(v) THEN JNum(Len(v.str))
    ELSE IF IsArr(v) THEN JNum(Len(v.arr))
    ELSE JUndefined

\* str.trim(), for the blank the model's texts have: the space.
RECURSIVE trim(_)
trim(s) ==
    IF Len(s) = 0 THEN s
    ELSE IF CharAt(s, 1) = " " THEN trim(SubSeq(s, 2, Len(s)))
    ELSE IF CharAt(s, Len(s)) = " " THEN trim(SubSeq(s, 1, Len(s) - 1))
    ELSE s

\* c.toUpperCase() for one character.
toUpperCase(c) ==
    IF Len(c) = 1 /\ Contains(LowerCase, c) THEN CharAt(UpperCase, IndexOf(LowerCase, c)) ELSE c

capitalize(str) ==
    IF Len(str) = 0 THEN "" ELSE toUpperCase(CharAt(str, 1)) \o SubSeq(str, 2, Len(str))

\* key.replace(/([A-Z])/g, ' $1')
RECURSIVE SpaceBeforeCapitals(_)
SpaceBeforeCapitals(key) ==
    IF Len(key) = 0 THEN ""
    ELSE (IF Contains(UpperCase, CharAt(key, 1)) THEN " " ELSE "") \o CharAt(key, 1)
         \o SpaceBeforeCapitals(SubSeq(key, 2, Len(key)))

formatKey(key) == trim(capitalize(SpaceBeforeCapitals(key)))

NotAFunction == JsError("TypeError", "str.substring is not a function")

\* truncate(str, maxLength) on the value it is handed: a value that is not a
\* string has no substring method, and is returned as it is when its length
\* is a number within maxLength (an array).
truncate(str, maxLength) ==
    IF IsStr(str)
    THEN IF Len(str.str) <= maxLength THEN Return(str)
         ELSE Return(JStr(SubSeq(str.str, 1, maxLength - 3) \o "..."))
    ELSE IF IsArr(str) /\ Len(str.arr) <= maxLength THEN Return(str)
    ELSE Throw(NotAFunction)

\* s is digits only.
RECURSIVE AllDigits(_)
AllDigits(s) == Len(s) = 0 \/ (IsDigit(CharAt(s, 1)) /\ AllDigits(SubSeq(s, 2, Len(s))))

\* YYYY-MM-DD
IsIsoDate(s) ==
    /\ Len(s) = 10
    /\ AllDigits(SubSeq(s, 1, 4)) /\ CharAt(s, 5) = "-"
    /\ AllDigits(SubSeq(s, 6, 7)) /\ CharAt(s, 8) = "-"
    /\ AllDigits(SubSeq(s, 9, 10))

\* YYYY-MM-DDTHH:MM:SSZ
IsIsoDateTime(s) ==
    /\ Len(s) = 20
    /\ IsIsoDate(SubSeq(s, 1, 10)) /\ CharAt(s, 11) = "T"
    /\ AllDigits(SubSeq(s, 12, 13)) /\ CharAt(s, 14) = ":"
    /\ AllDigits(SubSeq(s, 15, 16)) /\ CharAt(s, 17) = ":"
    /\ AllDigits(SubSeq(s, 18, 19)) /\ CharAt(s, 20) = "Z"

\* new Date(value).toISOString().split('T')[0], or Null when the date is
\* invalid and toISOString throws a RangeError. Of the texts, the UTC
\* date and date-time forms are dates; of the numbers, the model has times
\* within a day of the epoch.
IsoDay(value) ==
    IF IsStr(value)
    THEN IF IsIsoDate(value.str) \/ IsIsoDateTime(value.str)
         THEN Some(SubSeq(value.str, 1, 10)) ELSE Null
    ELSE IF IsNum(value)
    THEN IF value.num >= 0 /\ value.num < 86400000 THEN Some("1970-01-01")
         ELSE IF value.num < 0 /\ value.num >= -86400000 THEN Some("1969-12-31")
         ELSE Null
    ELSE IF value = JTrue THEN Some("1970-01-01")
    ELSE Null

\* formatDate(dateString): "-" for a falsy value, the day of a date, and the
\* value itself when it is not a date.
formatDate(dateString) ==
    IF ~TruthyValue(dateString) THEN JStr("-")
    ELSE IF IsoDay(dateString) # Null THEN JStr(IsoDay(dateString)[1])
    ELSE dateString

\* The template literal  | ${a} | ${b} | ... |
Row(cells) == "| " \o Join([i \in 1..Len(cells) |-> String(cells[i])], " | ") \o " |"

YesNo(v) == IF TruthyValue(v) THEN JStr("Yes") ELSE JStr("No")

\* x.name || (${x.firstname || ''} ${x.lastname || ''}).trim() || '-'
DisplayName(x) ==
    Or(Or(Prop(x, "name"),
          JStr(trim(String(Or(Prop(x, "firstname"), JStr(""))) \o " "
                    \o String(Or(Prop(x, "lastname"), JStr("")))))),
       JStr("-"))

\* lines.join('\n') of a table: the heading, the rule under it and one row
\* for each item. Reading a member of an item that is null or undefined
\* throws; an item of any other kind has its missing members undefined;
\* the first row that throws ends the formatting.
Table(heading, rule, rows) ==
    IF \E i \in 1..Len(rows) : rows[i].threw
    THEN rows[CHOOSE i \in 1..Len(rows) :
                 rows[i].threw /\ \A j \in 1..(i - 1) : ~rows[j].threw]
    ELSE Return(Join(<<heading, rule>> \o [i \in 1..Len(rows) |-> rows[i].value], "\n"))

formatTicketsTable(tickets) ==
    LET TicketRow(ticket) ==
            LET customer == Or(Or(OptionalProp(Prop(ticket, "customer"), "email"),
                                  OptionalProp(Prop(ticket, "customer"), "name")), JStr("-"))
                subject == IF TruthyValue(Prop(ticket, "subject"))
                           THEN truncate(Prop(ticket, "subject"), 40) ELSE Return(JStr("-"))
                created == formatDate(Prop(ticket, "createdDatetime"))
            IN  IF IsNullish(ticket) THEN Throw(PropertyOfNullish)
                ELSE IF subject.threw THEN subject
                ELSE Return(Row(<< Prop(ticket, "id"), subject.value, Prop(ticket, "status"),
                                   Or(Prop(ticket, "priority"), JStr("-")), Prop(ticket, "channel"),
                                   customer, created >>))
    IN  Table("| ID | Subject | Status | Priority | Channel | Customer | Created |",
              "|---|---|---|---|---|---|---|",
              [i \in 1..Len(tickets) |-> TicketRow(tickets[i])])

formatMessagesTable(messages) ==
    LET MessageRow(message) ==
            LET sender == Or(Or(OptionalProp(Prop(message, "sender"), "email"),
                                OptionalProp(Prop(message, "sender"), "name")), JStr("-"))
                created == formatDate(Prop(message, "createdDatetime"))
            IN  IF IsNullish(message) THEN Throw(PropertyOfNullish)
                ELSE Return(Row(<< Prop(message, "id"), Prop(message, "ticketId"),
                                   Prop(message, "channel"), YesNo(Prop(message, "fromAgent")),
                                   sender, created >>))
    IN  Table("| ID | Ticket | Channel | From Agent | Sender | Created |",
              "|---|---|---|---|---|---|",
              [i \in 1..Len(messages) |-> MessageRow(messages[i])])

formatCustomersTable(customers) ==
    LET CustomerRow(customer) ==
            IF IsNullish(customer) THEN Throw(PropertyOfNullish)
            ELSE Return(Row(<< Prop(customer, "id"), DisplayName(customer),
                               Or(Prop(customer, "email"), JStr("-")),
                               Or(Prop(customer, "language"), JStr("-")),
                               Prop(customer, "ticketsCount"),
                               formatDate(Prop(customer, "createdDatetime")) >>))
    IN  Table("| ID | Name | Email | Language | Tickets | Created |",
              "|---|---|---|---|---|---|",
              [i \in 1..Len(customers) |-> CustomerRow(customers[i])])

formatUsersTable(users) ==
    LET UserRow(user) ==
            IF IsNullish(user) THEN Throw(PropertyOfNullish)
            ELSE Return(Row(<< Prop(user, "id"), DisplayName(user), Prop(user, "email"),
                               Or(OptionalProp(Prop(user, "role"), "name"), JStr("-")),
                               YesNo(Prop(user, "active")),
                               formatDate(Prop(user, "createdDatetime")) >>))
    IN  Table("| ID | Name | Email | Role | Active | Created |",
              "|---|---|---|---|---|---|",
              [i \in 1..Len(users) |-> UserRow(users[i])])

formatTeamsTable(teams) ==
    LET TeamRow(team) ==
            LET description == IF TruthyValue(Prop(team, "description"))
                               THEN truncate(Prop(team, "description"), 30) ELSE Return(JStr("-"))
                members == IF IsNullish(Prop(team, "members")) THEN JUndefined
                           ELSE LengthOf(Prop(team, "members"))
            IN  IF IsNullish(team) THEN Throw(PropertyOfNullish)
                ELSE IF description.threw THEN description
                ELSE Return(Row(<< Prop(team, "id"), Prop(team, "name"), description.value,
                                   Or(members, JNum(0)),
                                   formatDate(Prop(team, "createdDatetime")) >>))
    IN  Table("| ID | Name | Description | Members | Created |",
              "|---|---|---|---|---|",
              [i \in 1..Len(teams) |-> TeamRow(teams[i])])

formatTagsTable(tags) ==
    LET TagRow(tag) ==
            LET description == IF TruthyValue(Prop(tag, "description"))
                               THEN truncate(Prop(tag, "description"), 30) ELSE Return(JStr("-"))
            IN  IF IsNullish(tag) THEN Throw(PropertyOfNullish)
                ELSE IF description.threw THEN description
                ELSE Return(Row(<< Prop(tag, "id"), Prop(tag, "name"), description.value,
                                   Prop(tag, "usage"), formatDate(Prop(tag, "createdDatetime")) >>))
    IN  Table("| ID | Name | Description | Usage | Created |",
              "|---|---|---|---|---|",
              [i \in 1..Len(tags) |-> TagRow(tags[i])])

formatMacrosTable(macros) ==
    LET MacroRow(macro) ==
            IF IsNullish(macro) THEN Throw(PropertyOfNullish)
            ELSE Return(Row(<< Prop(macro, "id"), Prop(macro, "name"),
                               Or(Prop(macro, "intent"), JStr("-")),
                               Or(Prop(macro, "language"), JStr("-")),
                               Prop(macro, "usage"), formatDate(Prop(macro, "createdDatetime")) >>))
    IN  Table("| ID | Name | Intent | Language | Usage | Created |",
              "|---|---|---|---|---|---|",
              [i \in 1..Len(macros) |-> MacroRow(macros[i])])

formatRulesTable(rules) ==
    LET RuleRow(rule) ==
            IF IsNullish(rule) THEN Throw(PropertyOfNullish)
            ELSE Return(Row(<< Prop(rule, "id"), Prop(rule, "name"), Prop(rule, "eventTypes"),
                               Prop(rule, "priority"),
                               IF TruthyValue(Prop(rule, "deactivatedDatetime"))
                               THEN JStr("No") ELSE JStr("Yes"),
                               formatDate(Prop(rule, "createdDatetime")) >>))
    IN  Table("| ID | Name | Event Types | Priority | Active | Created |",
              "|---|---|---|---|---|---|",
              [i \in 1..Len(rules) |-> RuleRow(rules[i])])

formatSatisfactionSurveysTable(surveys) ==
    LET SatisfactionSurveyRow(survey) ==
            IF IsNullish(survey) THEN Throw(PropertyOfNullish)
            ELSE Return(Row(<< Prop(survey, "id"),
                               IF Prop(survey, "score") # JNull
                               THEN JStr(String(Prop(survey, "score"))) ELSE JStr("-"),
                               Prop(survey, "ticketId"), Prop(survey, "customerId"),
                               IF TruthyValue(Prop(survey, "scoredDatetime"))
                               THEN formatDate(Prop(survey, "scoredDatetime")) ELSE JStr("-"),
                               formatDate(Prop(survey, "createdDatetime")) >>))
    IN  Table("| ID | Score | Ticket | Customer | Scored At | Created |",
              "|---|---|---|---|---|---|",
              [i \in 1..Len(surveys) |-> SatisfactionSurveyRow(surveys[i])])

ObjectOfNullish == JsError("TypeError", "Cannot convert undefined or null to object")

\* Object.keys(value): the member names of an object, the indexes of an array
\* or a string, nothing for a number or a boolean; null and undefined throw.
ObjectKeys(value) ==
    IF IsObj(value) THEN [i \in 1..Len(value.obj) |-> value.obj[i][1]]
    ELSE IF IsArr(value) THEN [i \in 1..Len(value.arr) |-> ToString(i - 1)]
    ELSE IF IsStr(value) THEN [i \in 1..Len(value.str) |-> ToString(i - 1)]
    ELSE <<>>

\* record[k] for a record that is not null or undefined.
Member(record, k) ==
    IF IsObj(record) THEN GetField(record, k)
    ELSE IF IsArr(record) /\ \E i \in 1..Len(record.arr) : ToString(i - 1) = k
    THEN record.arr[CHOOSE i \in 1..Len(record.arr) : ToString(i - 1) = k]
    ELSE IF IsStr(record) /\ \E i \in 1..Len(record.str) : ToString(i - 1) = k
    THEN JStr(CharAt(record.str, CHOOSE i \in 1..Len(record.str) : ToString(i - 1) = k))
    ELSE JUndefined

MaxColumns == 5

formatGenericTable(items) ==
    IF Len(items) = 0 THEN Return("_No items_")
    ELSE IF IsNullish(items[1]) THEN Throw(ObjectOfNullish)
    ELSE LET all == ObjectKeys(items[1])
             keys == SubSeq(all, 1, IF Len(all) < MaxColumns THEN Len(all) ELSE MaxColumns)
             GenericRow(record) ==
                 IF Len(keys) > 0 /\ IsNullish(record) THEN Throw(PropertyOfNullish)
                 ELSE Return("| " \o Join([i \in 1..Len(keys) |->
                          String(Coalesce(Member(record, keys[i]), JStr("-")))], " | ") \o " |")
         IN  Table("| " \o Join(keys, " | ") \o " |",
                   "|" \o Join([i \in 1..Len(keys) |-> "---"], "|") \o "|",
                   [i \in 1..Len(items) |-> GenericRow(items[i])])

formatArrayAsMarkdown(data, entityType) == formatGenericTable(data.arr)

\* The grave accent of the Markdown code marks, which a string of this
\* notation cannot hold: it is written as the apostrophe.
GraveAccent == "'"
Fence == GraveAccent \o GraveAccent \o GraveAccent

\* str.replace(/s$/, '')
WithoutFinalS(str) ==
    IF Len(str) > 0 /\ CharAt(str, Len(str)) = "s" THEN SubSeq(str, 1, Len(str) - 1) ELSE str

\* The lines of the members of an object: none for a member that is null or
\* undefined, a JSON block for an object or an array, one line otherwise.
RECURSIVE EntryLines(_)
EntryLines(entries) ==
    IF Len(entries) = 0 THEN <<>>
    ELSE LET key == Head(entries)[1]
             value == Head(entries)[2]
         IN  (IF IsNullish(value) THEN <<>>
              ELSE IF IsObj(value) \/ IsArr(value)
              THEN << "**" \o formatKey(key) \o ":**", Fence \o "json",
                      JSONstringify2(value)[1], Fence >>
              ELSE << "**" \o formatKey(key) \o ":** " \o String(value) >>)
             \o EntryLines(Tail(entries))

formatObjectAsMarkdown(data, entityType) ==
    Return(Join(<< "## " \o capitalize(WithoutFinalS(entityType)), "" >>
                \o EntryLines(data.obj), "\n"))

isPaginatedResponse(data) ==
    /\ IsObj(data)
    /\ \E i \in 1..Len(data.obj) : data.obj[i][1] = "items"
    /\ IsArr(GetField(data, "items"))

formatPaginatedAsMarkdown(data, entityType) ==
    LET items == GetField(data, "items").arr
        nextCursor == GetField(data, "nextCursor")
        head == << "## " \o capitalize(entityType), "",
                   "**Showing:** " \o ToString(Len(items)) \o " items" >>
                \o (IF TruthyValue(nextCursor)
                    THEN << "**More available:** Yes (cursor: " \o GraveAccent
                            \o String(nextCursor) \o GraveAccent \o ")" >>
                    ELSE <<>>)
                \o << "" >>
        table == IF entityType = "tickets" THEN formatTicketsTable(items)
                 ELSE IF entityType = "messages" THEN formatMessagesTable(items)
                 ELSE IF entityType = "customers" THEN formatCustomersTable(items)
                 ELSE IF entityType = "users" THEN formatUsersTable(items)
                 ELSE IF entityType = "teams" THEN formatTeamsTable(items)
                 ELSE IF entityType = "tags" THEN formatTagsTable(items)
                 ELSE IF entityType = "macros" THEN formatMacrosTable(items)
                 ELSE IF entityType = "rules" THEN formatRulesTable(items)
                 ELSE IF entityType = "satisfaction_surveys"
                 THEN formatSatisfactionSurveysTable(items)
                 ELSE formatGenericTable(items)
    IN  IF Len(items) = 0 THEN Return(Join(head \o << "_No items found._" >>, "\n"))
        ELSE Bind(table, LAMBDA text : Return(Join(head \o << text >>, "\n")))

\* A formatter that keeps a count of its calls and numbers its output.
formatAsMarkdownNumbered(data, entityType) ==
    Return("<!-- " \o ToString(Len(formatted)) \o " -->" \o String(data))

\* formatAsMarkdown(data, entityType): the text, or what the formatting threw.
formatAsMarkdown(data, entityType) ==
    IF isPaginatedResponse(data) THEN formatPaginatedAsMarkdown(data, entityType)
    ELSE IF IsArr(data) THEN formatArrayAsMarkdown(data, entityType)
    ELSE IF IsObj(data) THEN formatObjectAsMarkdown(data, entityType)
    ELSE Return(String(data))

formatResponse(data, format, entityType) ==
    IF format = "markdown"
    THEN Bind(formatAsMarkdown(data, entityType),
              LAMBDA text : Return([content |-> TextContent(Some(text))]))
    ELSE Return([content |-> TextContent(JSONstringify2(data))])
\* An error envelope that never marks a failure retryable.
formatErrorNeverRetryable(error) ==
    [ content |-> TextContent(JSONstringify2(JObj(<<
          <<"error", JStr("Error: " \o error.message)>>,
          <<"details", formatErrorForLogging(error)>> >>))),
      isError |-> TRUE ]

\* An error envelope that marks every failure retryable.
formatErrorAlwaysRetryable(error) ==
    [ content |-> TextContent(JSONstringify2(JObj(<<
          <<"error", JStr("Error: " \o error.message \o " (retryable)")>>,
          <<"details", formatErrorForLogging(error)>> >>))),
      isError |-> TRUE ]

formatError(error) ==
    LET message == IF InstanceOfGorgiasApiError(error)
                   THEN "Error: " \o error.message
                        \o (IF Retryable(error) THEN " (retryable)" ELSE "")
                   ELSE "Error: " \o error.message
    IN  [ content |-> TextContent(JSONstringify2(JObj(<<
              <<"error", JStr(message)>>,
              <<"details", formatErrorForLogging(error)>> >>))),
          isError |-> TRUE ]
\* The tool takes a limit: the tools of the paginated list operations.
HasLimit(tool) == GorgiasClientImpl[tool.op].returns = "page"

\* z.number().int().min(1).max(100).default(20)
LimitMin == 1
LimitMax == 100
LimitDefault == 20

\* The arguments a handler receives from the tool's schema: a limit left
\* out is defaulted, a limit outside the accepted range fails the parse and
\* the handler is not called.
inputSchema(tool, args) ==
    IF ~HasLimit(tool) THEN [success |-> TRUE, value |-> Some(args)]
    ELSE IF args.limit = Null
    THEN [success |-> TRUE, value |-> Some([args EXCEPT !.limit = Some(LimitDefault)])]
    ELSE IF args.limit[1] >= LimitMin /\ args.limit[1] <= LimitMax
    THEN [success |-> TRUE, value |-> Some(args)]
    ELSE [success |-> FALSE, value |-> Null]

\* A handler that passes its free-text argument on without parsing it.
parseJsonArgumentUnparsed(tool, args) == Return(JUndefined)

\* The part of a handler's try block that runs before the client is called:
\* the free-text JSON argument, when the tool has one, is parsed.
parseJsonArgument(tool, args) ==
    IF tool.jsonArg = "required" THEN JSONparse(args.json[1])
    ELSE IF tool.jsonArg = "optional" /\ Truthy(args.json) THEN JSONparse(args.json[1])
    ELSE Return(JUndefined)

\* The part of a handler's try block that runs after the client operation
\* returned: the success envelope is built.
successEnvelope(tool, args, result) ==
    IF tool.success = "connection"
    THEN Return([content |-> TextContent(JSONstringify2(result))])
    ELSE IF tool.success = "formatResponse"
    THEN formatResponse(IF tool.wrap THEN JObj(<< <<"items", result>> >>) ELSE result,
                        args.format, tool.key)
    ELSE LET message == IF tool.msgId
                        THEN tool.msgPre \o ToString(args.id) \o tool.msgPost
                        ELSE tool.msgPre
         IN  Return([content |-> TextContent(JSONstringify2(JObj(
                 << <<"success", JTrue>>, <<"message", JStr(message)>> >>
                 \o (IF tool.key = "" THEN <<>> ELSE << <<tool.key, result>> >>))))])

\* A catch block that rethrows.
handlerCatchRethrow(tool, error) == [thrown |-> error]

\* The catch block of a handler.
handlerCatch(tool, error) ==
    IF tool.name = "gorgias_test_connection"
    THEN [ content |-> TextContent(Some("Connection failed: " \o error.message)),
           isError |-> TRUE ]
    ELSE formatError(error)

\* try { ... } catch (error) { ... } around what the try block did.
Caught(tool, tried) == IF tried.threw THEN handlerCatch(tool, tried.error[1]) ELSE tried.value

\* What the handler returns once the awaited client operation has ended.
handlerAfterAwait(tool, args, operated) ==
    Caught(tool, Bind(operated, LAMBDA result : successEnvelope(tool, args, result)))

(***************************************************************************)
(* The query string of listTickets. TicketListParams is a sequence of      *)
(* <<name, value>> pairs, one for each member the caller supplied.         *)
(***************************************************************************)
\* params?.name
Param(params, name) ==
    IF \E i \in 1..Len(params) : params[i][1] = name
    THEN params[CHOOSE i \in 1..Len(params) : params[i][1] = name][2]
    ELSE JUndefined

\* The application/x-www-form-urlencoded serializer of URLSearchParams: it
\* replaces the characters of FormCodes (those the model uses), each by its
\* replacement; letters, digits and * - . _ are kept.
RECURSIVE FormEncode(_)
FormEncode(s) ==
    LET FormCodes ==
            << <<" ", "+">>, <<":", "%3A">>, <<",", "%2C">>, <<"/", "%2F">>, <<"+", "%2B">>,
               <<"=", "%3D">>, <<"&", "%26">>, <<"?", "%3F">>, <<"%", "%25">>, <<"@", "%40">> >>
    IN  IF s = "" THEN ""
        ELSE LET c == CharAt(s, 1)
             IN  (IF \E i \in 1..Len(FormCodes) : FormCodes[i][1] = c
                  THEN FormCodes[CHOOSE i \in 1..Len(FormCodes) : FormCodes[i][1] = c][2]
                  ELSE c) \o FormEncode(SubSeq(s, 2, Len(s)))

\* The name=value pairs of the URLSearchParams listTickets builds from the
\* members it copies: a member is copied when its value is truthy, as
\* String(value).
RECURSIVE URLSearchParams(_, _)
URLSearchParams(members, params) ==
    IF members = <<>> THEN <<>>
    ELSE (IF TruthyValue(Param(params, Head(members)[1]))
          THEN << Head(members)[2] \o "="
                  \o FormEncode(String(Param(params, Head(members)[1]))) >>
          ELSE <<>>)
         \o URLSearchParams(Tail(members), params)

\* The endpoint listTickets passes to request(): "/tickets?" and the query,
\* built from the members its if statements copy, in their order, each
\* under the name it is set with.
listTickets(params) ==
    LET TicketQueryMembers ==
            << <<"limit", "limit">>, <<"cursor", "cursor">>, <<"status", "status">>,
               <<"channel", "channel">>, <<"assigneeUserId", "assignee_user_id">>,
               <<"assigneeTeamId", "assignee_team_id">>, <<"customerId", "customer_id">>,
               <<"createdDatetimeAfter", "created_datetime_after">>,
               <<"createdDatetimeBefore", "created_datetime_before">>,
               <<"updatedDatetimeAfter", "updated_datetime_after">>,
               <<"updatedDatetimeBefore", "updated_datetime_before">>,
               <<"orderBy", "order_by">> >>
    IN  "/tickets?" \o Join(URLSearchParams(TicketQueryMembers, params), "&")

(***************************************************************************)
(* Pagination (utils/pagination.ts). A limit is an optional integer, a      *)
(* cursor an optional string, params an optional record of the two.        *)
(***************************************************************************)
PAGINATION_DEFAULTS == [limit |-> 20, maxLimit |-> 100]

\* Math.min over two integers
MathMin(a, b) == IF a <= b THEN a ELSE b

\* params?.limit and params?.cursor
OptionalLimit(params) == IF params = Null THEN Null ELSE params[1].limit
OptionalCursor(params) == IF params = Null THEN Null ELSE params[1].cursor

\* limit: Math.min(params?.limit || 20, maxLimit), cursor: params?.cursor;
\* maxLimit defaults to 100 when the caller leaves it out.
normalizePaginationParams(params, maxLimit) ==
    LET max == IF maxLimit = Null THEN PAGINATION_DEFAULTS.maxLimit ELSE maxLimit[1]
        limit == OptionalLimit(params)
        given == IF limit = Null \/ limit[1] = 0 THEN PAGINATION_DEFAULTS.limit ELSE limit[1]
    IN  [limit |-> MathMin(given, max), cursor |-> OptionalCursor(params)]

(***************************************************************************)
(* Inputs.                                                                 *)
(***************************************************************************)
\* Header values of the single-request specification: absent, empty, set.
DomainHeaders == {Null, Some(""), Some("acme")}
EmailHeaders == {Null, Some(""), Some("a@acme.io")}
ApiKeyHeaders == {Null, Some(""), Some("key-a")}

Paths == {"/health", "/mcp", "/sse", "/", "/tools"}
Methods == {"GET", "POST"}

AllRequests ==
    [ path : Paths, method : Methods,
      headers : [domain : DomainHeaders, email : EmailHeaders, apiKey : ApiKeyHeaders] ]

\* Two tenants, for the concurrent specification.
TenantA == [domain |-> Some("acme"), email |-> Some("a@acme.io"), apiKey |-> Some("key-a")]
TenantB == [domain |-> Some("globex"), email |-> Some("b@globex.io"), apiKey |-> Some("key-b")]

ConcurrentRequests ==
    { [path |-> "/mcp", method |-> "POST", headers |-> TenantA],
      [path |-> "/mcp", method |-> "POST", headers |-> TenantB],
      [path |-> "/mcp", method |-> "POST", headers |-> [TenantA EXCEPT !.apiKey = Null]],
      [path |-> "/health", method |-> "GET", headers |-> TenantB],
      [path |-> "/", method |-> "GET",
       headers |-> [domain |-> Null, email |-> Null, apiKey |-> Null]] }

ConcurrentTools == {"gorgias_list_tickets", "gorgias_test_connection", "gorgias_delete_ticket"}

\* The arguments a tool call may carry: an id, the free-text JSON argument
\* (when the tool has one) and the display format (when the tool takes one).
JsonArguments(tool) ==
    IF tool.jsonArg = "none" THEN {Null}
    ELSE IF tool.jsonArg = "required"
    THEN {Some(""), Some("not json"), Some("[]"), Some("42"), Some("{}")}
    ELSE {Null, Some(""), Some("not json"), Some("{}")}
         \cup (IF tool.op = "createIntegration" THEN {Some(TextOf(SomeHeaders))} ELSE {})

Formats(tool) == IF tool.success = "formatResponse" THEN {"json", "markdown"} ELSE {"json"}

\* The limits a caller may pass to a tool that takes one: none, and values
\* below, at the ends of, inside and above the range its schema accepts.
Limits(tool) ==
    IF HasLimit(tool)
    THEN {Null, Some(0), Some(1), Some(2), Some(100), Some(101), Some(500)}
    ELSE {Null}

\* The fields whose argument a caller can set, each with its first value.
RECURSIVE AllSupplied(_)
AllSupplied(fields) ==
    IF fields = <<>> THEN <<>>
    ELSE (IF Head(fields).values = <<>> THEN <<>>
          ELSE << <<Head(fields).arg, Head(fields).values[1]>> >>)
         \o AllSupplied(Tail(fields))

\* What a caller may supply to gorgias_create_macro besides actionsJson: the
\* name (required), alone or with the intent and the language.
MacroInputs ==
    { << <<"name", JStr("Refund")>> >>,
      << <<"name", JStr("Refund")>>, <<"intent", JStr("refund")>>,
         <<"language", JStr("en")>> >> }

\* What a caller may supply to gorgias_create_integration besides
\* httpHeadersJson: the name and the type (required), with or without the URL
\* (which the schema requires to be a URL, so never empty) and the method.
IntegrationInputs ==
    { << <<"name", JStr("Hook")>>, <<"type", JStr("http")>> >>,
      << <<"name", JStr("Hook")>>, <<"type", JStr("http")>>,
         <<"httpMethod", JStr("PUT")>> >>,
      << <<"name", JStr("Hook")>>, <<"type", JStr("http")>>,
         <<"httpUrl", JStr("https://hooks.example/in")>> >>,
      << <<"name", JStr("Hook")>>, <<"type", JStr("http")>>,
         <<"httpUrl", JStr("https://hooks.example/in")>>, <<"httpMethod", JStr("PUT")>> >> }

\* What a caller may supply for the fields of an update tool: nothing, any
\* one field with any of its values, or every field.
FieldInputs(tool) ==
    IF tool.op \in UpdateOperations
    THEN LET fields == UpdateFields[tool.op]
         IN  { <<>>, AllSupplied(fields) }
             \cup UNION { { << <<fields[i].arg, fields[i].values[j]>> >> :
                                j \in 1..Len(fields[i].values) } : i \in 1..Len(fields) }
    ELSE IF tool.op = "createMacro" THEN MacroInputs
    ELSE IF tool.op = "createIntegration" THEN IntegrationInputs
    ELSE { <<>> }

Arguments(tool) ==
    [ id : {7}, json : JsonArguments(tool), format : Formats(tool), limit : Limits(tool),
      fields : FieldInputs(tool) ]

PlainArguments == [id |-> 7, json |-> Null, format |-> "json", limit |-> Null, fields |-> <<>>]

\* How an upstream call can settle: a response (status, Retry-After header,
\* body text) or a rejected fetch.
Response(status, retryAfter, body) ==
    [kind |-> "response", status |-> status, retryAfter |-> retryAfter, body |-> body]

NetworkError == [kind |-> "network_error", status |-> 0, retryAfter |-> Null, body |-> ""]

RetryAfterHeaders ==
    { Null, Some(""), Some("0"), Some("30"), Some("120"), Some(" 7"), Some("1.5"),
      Some("-5"), Some("soon"), Some("Wed, 21 Oct 2026 07:28:00 GMT") }

ErrorStatuses == {300, 400, 404, 422, 500, 503}

ErrorBodies ==
    { "", "<html>Bad Gateway</html>", "null", "42", "{}",
      "{\"message\":\"boom\"}", "{\"error\":\"bad request\"}",
      "{\"message\":\"boom\",\"error\":\"bad request\"}",
      "{\"message\":\"\",\"error\":\"bad request\"}", "{\"message\":\"\"}" }

SuccessStatuses == {200, 201, 299}

SuccessBodies ==
    { "", "null", "{}", TextOf(WireEntity), "{\"data\":[]}", TextOf(KnownJson[12]),
      TextOf(KnownJson[13]) }

Outcomes ==
    { Response(429, h, "") : h \in RetryAfterHeaders }
    \cup { Response(s, Null, "") : s \in {401, 403} }
    \cup { Response(s, Null, b) : s \in ErrorStatuses, b \in ErrorBodies }
    \cup { Response(s, Null, b) : s \in SuccessStatuses, b \in SuccessBodies }
    \cup { Response(204, Null, ""), NetworkError }

\* One outcome of each kind: a page, no content, an authentication failure,
\* a rate limit, a server failure and a rejected fetch.
OutcomeKinds ==
    { Response(200, Null, TextOf(KnownJson[12])), Response(204, Null, ""),
      Response(403, Null, ""), Response(429, Some("30"), ""),
      Response(500, Null, "{\"message\":\"boom\"}"), NetworkError }

\* The outcomes of the concurrent specification: a success, a failure
\* response and a rejected fetch.
ConcurrentOutcomes ==
    { Response(200, Null, TextOf(KnownJson[12])), Response(429, Some("30"), ""), NetworkError }

(***************************************************************************)
(* The state machine.                                                      *)
(***************************************************************************)
Init ==
    /\ pc = [r \in Requests |-> "idle"]
    /\ request = [r \in Requests |-> Null]
    /\ httpResp = [r \in Requests |-> Null]
    /\ server = [r \in Requests |-> Null]
    /\ invocation = [r \in Requests |-> Null]
    /\ calls = [r \in Requests |-> <<>>]
    /\ response = [r \in Requests |-> Null]
    /\ raised = [r \in Requests |-> Null]
    /\ opResult = [r \in Requests |-> Null]
    /\ envelope = [r \in Requests |-> Null]
    /\ applied = Null
    /\ formatted = <<>>
    /\ bodyReads = [r \in Requests |-> <<>>]

\* The protocol runtime dispatches a call of the i-th registered tool: the
\* arguments are parsed against the tool's schema, and a call whose arguments
\* the schema rejects never reaches the handler; otherwise the handler runs
\* up to its await of the upstream call, or returns at once when its own
\* argument parsing fails.
callTool(r, i, args) ==
    /\ pc[r] = "serving"
    /\ i \in 1..Len(server[r][1].tools)
    /\ LET tool == server[r][1].tools[i]
           input == inputSchema(tool, args)
           parsed == parseJsonArgument(tool, args)
       IN  /\ args \in Arguments(tool)
           /\ invocation' = [invocation EXCEPT ![r] =
                   Some([tool |-> tool, args |-> args, input |-> input.value])]
           /\ IF ~input.success
              THEN /\ pc' = [pc EXCEPT ![r] = "rejected"]
                   /\ UNCHANGED <<calls, envelope>>
              ELSE IF parsed.threw
              THEN /\ envelope' = [envelope EXCEPT ![r] =
                           Some(handlerCatch(tool, parsed.error[1]))]
                   /\ pc' = [pc EXCEPT ![r] = "returned"]
                   /\ UNCHANGED calls
              ELSE /\ calls' = [calls EXCEPT ![r] =
                           send(@, UpstreamCall(server[r][1].client, tool.op, input.value[1]))]
                   /\ pc' = [pc EXCEPT ![r] = "fetching"]
                   /\ UNCHANGED envelope
    /\ UNCHANGED <<request, httpResp, server, response, raised, opResult, applied,
                   formatted, bodyReads>>
\* The upstream call awaited for request r completes: fetch() resolves with
\* a response or rejects.
completes(r, outcome) ==
    /\ pc[r] = "fetching"
    /\ response' = [response EXCEPT ![r] = Some(outcome)]

\* A handler that, on a 429 or a 5xx, waits for another answer instead of
\* returning.
settleRetrying(r, outcome) ==
    /\ completes(r, outcome)
    /\ IF outcome.kind = "response" /\ (outcome.status = 429 \/ outcome.status >= 500)
       THEN UNCHANGED <<pc, raised, bodyReads, opResult, envelope>>
       ELSE LET tool == invocation[r][1].tool
                args == invocation[r][1].input[1]
                requested == requestSettled(outcome)
                operated == clientOperation(tool.op, requested)
            IN  /\ raised' = [raised EXCEPT ![r] = requested.error]
                /\ bodyReads' = [bodyReads EXCEPT ![r] = bodyRead(outcome)]
                /\ opResult' = [opResult EXCEPT ![r] =
                        IF operated.threw THEN Null ELSE Some(operated.value)]
                /\ envelope' = [envelope EXCEPT ![r] =
                        Some(handlerAfterAwait(tool, args, operated))]
                /\ pc' = [pc EXCEPT ![r] = "returned"]
    /\ UNCHANGED <<request, httpResp, server, invocation, calls, applied, formatted>>

\* The awaited upstream call settles; request() classifies it, the client
\* operation maps the result, and the handler returns its envelope.
settle(r, outcome) ==
    /\ completes(r, outcome)
    /\ LET tool == invocation[r][1].tool
           args == invocation[r][1].input[1]
           requested == requestSettled(outcome)
           operated == clientOperation(tool.op, requested)
       IN  /\ raised' = [raised EXCEPT ![r] = requested.error]
           /\ bodyReads' = [bodyReads EXCEPT ![r] = bodyRead(outcome)]
           /\ opResult' = [opResult EXCEPT ![r] =
                   IF operated.threw THEN Null ELSE Some(operated.value)]
           /\ envelope' = [envelope EXCEPT ![r] =
                   Some(handlerAfterAwait(tool, args, operated))]
    /\ pc' = [pc EXCEPT ![r] = "returned"]
    /\ UNCHANGED <<request, httpResp, server, invocation, calls, applied, formatted>>

\* Concurrent requests of two tenants.
Next ==
    \E r \in Requests :
        \/ \E req \in ConcurrentRequests : fetch(r, req)
        \/ /\ pc[r] = "serving"
           /\ \E i \in 1..Len(server[r][1].tools) :
                 /\ server[r][1].tools[i].name \in ConcurrentTools
                 /\ callTool(r, i, PlainArguments)
        \/ \E outcome \in ConcurrentOutcomes : settle(r, outcome)

Spec == Init /\ [][Next]_vars

\* One request, with every request shape, every tool and every outcome.
NextOne ==
    \/ \E req \in AllRequests : fetch(1, req)
    \/ /\ pc[1] = "serving"
       /\ \E i \in 1..Len(server[1][1].tools) :
             \E args \in Arguments(server[1][1].tools[i]) : callTool(1, i, args)
    \/ \E outcome \in Outcomes : settle(1, outcome)

SpecOne == Init /\ [][NextOne]_vars
\* The arguments of the fair specification: those of SpecOne that leave the
\* limit and the format to their defaults.
FairArguments(tool) ==
    { args \in Arguments(tool) : args.limit = Null /\ args.format = "json" }

\* One request of either tenant, every tool, and one outcome of each kind.
NextFair ==
    \/ \E req \in ConcurrentRequests : fetch(1, req)
    \/ /\ pc[1] = "serving"
       /\ \E i \in 1..Len(server[1][1].tools) :
             \E args \in FairArguments(server[1][1].tools[i]) : callTool(1, i, args)
    \/ \E outcome \in OutcomeKinds : settle(1, outcome)

\* An upstream call that was issued completes: while the handler awaits it,
\* the fetch eventually resolves or rejects.
SpecFair ==
    Init /\ [][NextFair]_vars
         /\ WF_response(\E outcome \in OutcomeKinds : completes(1, outcome))

PaginationLimits ==
    {Null} \cup {Some(n) : n \in {-100, -5, -1, 0, 1, 2, 19, 20, 21, 50, 99, 100, 101, 500}}

PaginationCursors == {Null, Some(""), Some("c2")}

PaginationParams ==
    {Null} \cup {Some(p) : p \in [limit : PaginationLimits, cursor : PaginationCursors]}

PaginationMaxLimits == {Null, Some(50), Some(100)}

PaginationInputs == [params : PaginationParams, maxLimit : PaginationMaxLimits]

\* The mapping functions of the entity kinds, and those of the two inline
\* response types.
EntityMappers ==
    { "mapTicket", "mapTicketWithMessages", "mapMessage", "mapCustomer", "mapUser",
      "mapTeam", "mapTag", "mapMacro", "mapRule", "mapIntegration", "mapView",
      "mapSatisfactionSurvey", "mapCustomField", "mapEvent", "mapJob", "mapWidget",
      "getAccount", "getStatistic" }

\* The member of a mapping that reads the given wire field, if one does.
ReaderOf(mapper, wire) ==
    LET members == Mappers[mapper].members
    IN  IF \E i \in 1..Len(members) : members[i][2] = wire
        THEN Some(members[CHOOSE i \in 1..Len(members) : members[i][2] = wire])
        ELSE Null

\* A wire record of the raw type a mapping reads, with every field of the
\* type present: the given filler in the plain fields, one record in a
\* field that holds a list of records, a record in a field that holds one.
RECURSIVE WireRecord(_, _)
WireRecord(mapper, filler) ==
    LET fields == RawFields[Mappers[mapper].raw]
        ValueOf(name) ==
            LET reader == ReaderOf(mapper, name)
            IN  IF reader = Null \/ reader[1][3] = "copy" THEN filler
                ELSE IF reader[1][3] = "each" THEN JArr(<<WireRecord(reader[1][4], filler)>>)
                ELSE WireRecord(reader[1][4], filler)
    IN  JObj([i \in 1..Len(fields) |-> <<fields[i], ValueOf(fields[i])>>])

Fillers == {JStr("v"), JNum(1), JNull, JTrue}

MappingInputs == [mapper : EntityMappers, filler : Fillers]

\* The values formatResponse is applied to: null, the primitives, empty
\* lists, lists and paginated results of null, primitive and object items,
\* and objects with some or all of an entity's fields missing.
SparseEntity == JObj(<< <<"id", JNum(7)>> >>)

DatedEntity ==
    JObj(<< <<"id", JNum(7)>>, <<"name", JStr("Ann")>>, <<"subject", JStr("Late parcel")>>,
            <<"description", JNull>>, <<"customer", JObj(<< <<"email", JStr("a@acme.io")>> >>)>>,
            <<"createdDatetime", JStr("2024-01-02T03:04:05Z")>>,
            <<"tags", JArr(<<JNum(3)>>)>> >>)

FormatItems ==
    { <<>>, <<JNull>>, <<JNum(5)>>, <<JStr("ab")>>, <<SparseEntity>>, <<DatedEntity>>,
      <<DatedEntity, JNull>>, <<JNum(5), JNull>>, <<JObj(<<>>), JTrue>> }

FormatValues ==
    {JNull, JNum(0), JStr("ok"), JTrue, JObj(<<>>), SparseEntity, DatedEntity}
    \cup { JArr(items) : items \in FormatItems }
    \cup { JObj(<< <<"items", JArr(items)>> >>) : items \in FormatItems }
    \cup { JObj(<< <<"items", JArr(items)>>, <<"nextCursor", JStr("c2")>> >>) :
             items \in {<<>>, <<DatedEntity>>} }

\* The entity types the tools pass, and one no table is written for.
EntityTypes ==
    { "tickets", "messages", "customers", "users", "teams", "tags", "macros", "rules",
      "satisfaction_surveys", "events", "ticket", "account" }

ResponseFormats == {"json", "markdown"}

FormatInputs == [data : FormatValues, format : ResponseFormats, entityType : EntityTypes]

\* The arguments of the formatter calls that are made one after another.
RepeatedFormatInputs ==
    { [data |-> JObj(<< <<"items", JArr(<<DatedEntity>>)>>, <<"nextCursor", JStr("c2")>> >>),
       entityType |-> "tickets"],
      [data |-> JObj(<< <<"items", JArr(<<DatedEntity>>)>>, <<"nextCursor", JStr("c2")>> >>),
       entityType |-> "events"],
      [data |-> JArr(<<SparseEntity, JNum(5)>>), entityType |-> "tags"],
      [data |-> DatedEntity, entityType |-> "ticket"],
      [data |-> JObj(<< <<"items", JArr(<<JNull>>)>> >>), entityType |-> "customers"],
      [data |-> JNull, entityType |-> "account"] }
\* The members of TicketListParams with values a caller of listTickets may
\* supply for each.
TicketListMembers ==
    << <<"limit", <<JNum(20)>> >>,
       <<"cursor", <<JStr("c2")>> >>,
       <<"status", <<JStr("open"), JStr("closed")>> >>,
       <<"channel", <<JStr("email"), JStr("")>> >>,
       <<"assigneeUserId", <<JNum(5), JNum(0)>> >>,
       <<"assigneeTeamId", <<JNum(3), JNum(0)>> >>,
       <<"customerId", <<JNum(9), JNum(0)>> >>,
       <<"tagIds", <<JArr(<<JNum(1), JNum(2)>>), JArr(<<>>)>> >>,
       <<"createdDatetimeAfter", <<JStr("2026-01-01T00:00:00Z")>> >>,
       <<"createdDatetimeBefore", <<JStr("2026-02-01T00:00:00Z")>> >>,
       <<"updatedDatetimeAfter", <<JStr("2026-03-01T00:00:00Z")>> >>,
       <<"updatedDatetimeBefore", <<JStr("2026-04-01T00:00:00Z")>> >>,
       <<"orderBy", <<JStr("created_datetime"), JStr("updated_datetime")>> >> >>

\* The parameters listTickets is called with: none, any one member with any
\* of its values, any two members with their first values, or all members.
TicketListInputs ==
    LET m == TicketListMembers
        n == Len(TicketListMembers)
    IN  { <<>>, [i \in 1..n |-> <<m[i][1], m[i][2][1]>>] }
        \cup UNION { { << <<m[i][1], m[i][2][j]>> >> : j \in 1..Len(m[i][2]) } : i \in 1..n }
        \cup UNION { { << <<m[i][1], m[i][2][1]>>, <<m[k][1], m[k][2][1]>> >> :
                           k \in (i + 1)..n } : i \in 1..n }

InitPure ==
    /\ pc = [r \in Requests |-> "idle"]
    /\ request = [r \in Requests |-> Null]
    /\ httpResp = [r \in Requests |-> Null]
    /\ server = [r \in Requests |-> Null]
    /\ invocation = [r \in Requests |-> Null]
    /\ calls = [r \in Requests |-> <<>>]
    /\ response = [r \in Requests |-> Null]
    /\ raised = [r \in Requests |-> Null]
    /\ opResult = [r \in Requests |-> Null]
    /\ envelope = [r \in Requests |-> Null]
    /\ formatted = <<>>
    /\ bodyReads = [r \in Requests |-> <<>>]
    /\ \/ \E input \in PaginationInputs :
             applied = Some([fn |-> "normalizePaginationParams", input |-> input,
                             output |-> Null])
       \/ \E input \in MappingInputs :
             applied = Some([fn |-> input.mapper,
                             input |-> WireRecord(input.mapper, input.filler),
                             output |-> Null])
       \/ \E input \in FormatInputs :
             applied = Some([fn |-> "formatResponse", input |-> input, output |-> Null])
       \/ \E input \in TicketListInputs :
             applied = Some([fn |-> "listTickets", input |-> input, output |-> Null])
       \/ applied = Null

\* normalizePaginationParams(params, maxLimit) is evaluated.
applyNormalizePaginationParams ==
    /\ applied # Null
    /\ applied[1].fn = "normalizePaginationParams"
    /\ applied[1].output = Null
    /\ applied' = Some([applied[1] EXCEPT !.output =
            Some(normalizePaginationParams(applied[1].input.params, applied[1].input.maxLimit))])
    /\ UNCHANGED <<pc, request, httpResp, server, invocation, calls, response, raised, opResult,
                   envelope, formatted, bodyReads>>

\* mapX(raw) is evaluated on a wire record.
applyMapper ==
    /\ applied # Null
    /\ applied[1].fn \in EntityMappers
    /\ applied[1].output = Null
    /\ applied' = Some([applied[1] EXCEPT !.output =
            Some(mapRaw(applied[1].fn, applied[1].input))])
    /\ UNCHANGED <<pc, request, httpResp, server, invocation, calls, response, raised, opResult,
                   envelope, formatted, bodyReads>>

\* formatResponse(data, format, entityType) is evaluated.
applyFormatResponse ==
    /\ applied # Null
    /\ applied[1].fn = "formatResponse"
    /\ applied[1].output = Null
    /\ applied' = Some([applied[1] EXCEPT !.output =
            Some(formatResponse(applied[1].input.data, applied[1].input.format,
                                applied[1].input.entityType))])
    /\ UNCHANGED <<pc, request, httpResp, server, invocation, calls, response, raised, opResult,
                   envelope, formatted, bodyReads>>

\* listTickets(params) is evaluated up to the endpoint it requests.
applyListTickets ==
    /\ applied # Null
    /\ applied[1].fn = "listTickets"
    /\ applied[1].output = Null
    /\ applied' = Some([applied[1] EXCEPT !.output = Some(listTickets(applied[1].input))])
    /\ UNCHANGED <<pc, request, httpResp, server, invocation, calls, response, raised, opResult,
                   envelope, formatted, bodyReads>>

\* formatAsMarkdown(data, entityType) is called, after any earlier calls.
callFormatAsMarkdown(input) ==
    /\ applied = Null
    /\ Len(formatted) < MaxFormatterCalls
    /\ formatted' = Append(formatted,
            [input |-> input, output |-> formatAsMarkdown(input.data, input.entityType)])
    /\ UNCHANGED <<pc, request, httpResp, server, invocation, calls, response, raised, opResult,
                   envelope, applied, bodyReads>>

NextPure ==
    \/ applyNormalizePaginationParams
    \/ applyMapper
    \/ applyFormatResponse
    \/ applyListTickets
    \/ \E input \in RepeatedFormatInputs : callFormatAsMarkdown(input)

SpecPure == InitPure /\ [][NextPure]_vars

(***************************************************************************)
(* Properties.                                                             *)
(***************************************************************************)
\* A credential header that is absent (or empty, which the router treats alike).
Absent(header) == header = Null \/ header = Some("")

IsMcpPost(req) == req.path = "/mcp" /\ req.method = "POST"

SomeHeaderAbsent(req) ==
    Absent(req.headers.domain) \/ Absent(req.headers.email) \/ Absent(req.headers.apiKey)

StartsWith(s, prefix) == Len(s) >= Len(prefix) /\ SubSeq(s, 1, Len(prefix)) = prefix

\* C1: a POST to /mcp with at least one credential header missing is answered
\* by the router itself with HTTP 401 and a body that lists the three header
\* names under required_headers; for such a request no server or client is
\* ever built, no tool is registered or invoked, and no upstream call is issued.
C1_MissingCredentialsAnswered401 ==
    \A r \in Requests :
        (request[r] # Null /\ IsMcpPost(request[r][1]) /\ SomeHeaderAbsent(request[r][1]))
        => /\ pc[r] = "responded"
           /\ httpResp[r] # Null
           /\ httpResp[r][1].status = 401
           /\ Contains(httpResp[r][1].body,
                "\"required_headers\":[\"X-Gorgias-Domain\",\"X-Gorgias-Email\",\"X-Gorgias-API-Key\"]")
           /\ server[r] = Null
           /\ invocation[r] = Null
           /\ calls[r] = <<>>
           /\ response[r] = Null
           /\ envelope[r] = Null

\* Scenario B: only the API-key header is missing, and the router has answered.
C1_Witness ==
    \E r \in Requests :
        /\ request[r] # Null
        /\ IsMcpPost(request[r][1])
        /\ ~Absent(request[r][1].headers.domain)
        /\ ~Absent(request[r][1].headers.email)
        /\ request[r][1].headers.apiKey = Null
        /\ httpResp[r] # Null
        /\ httpResp[r][1].status = 401

\* The message validation must fail with, by which members are present.
ExpectedMissingMessage(hasDomain, hasEmail, hasApiKey) ==
    IF ~hasDomain /\ ~hasEmail /\ ~hasApiKey
    THEN "Missing required headers: X-Gorgias-Domain, X-Gorgias-Email, X-Gorgias-API-Key"
    ELSE IF ~hasDomain /\ ~hasEmail THEN "Missing required headers: X-Gorgias-Domain, X-Gorgias-Email"
    ELSE IF ~hasDomain /\ ~hasApiKey THEN "Missing required headers: X-Gorgias-Domain, X-Gorgias-API-Key"
    ELSE IF ~hasEmail /\ ~hasApiKey THEN "Missing required headers: X-Gorgias-Email, X-Gorgias-API-Key"
    ELSE IF ~hasDomain THEN "Missing required headers: X-Gorgias-Domain"
    ELSE IF ~hasEmail THEN "Missing required headers: X-Gorgias-Email"
    ELSE "Missing required headers: X-Gorgias-API-Key"

\* C2: validateGorgiasCredentials accepts every triple whose three members
\* are present (the request is handed on, no 401), and for every triple with
\* a missing member it fails with the message that names exactly the headers
\* of the missing members, in the order domain, email, API key (the router
\* passes that message on as the message of its 401).
C2_ValidateNamesExactlyTheMissing ==
    \A r \in Requests :
        (request[r] # Null /\ IsMcpPost(request[r][1]))
        => LET h == request[r][1].headers
           IN  IF SomeHeaderAbsent(request[r][1])
               THEN /\ httpResp[r] # Null
                    /\ Contains(httpResp[r][1].body,
                         "\"message\":\""
                         \o ExpectedMissingMessage(~Absent(h.domain), ~Absent(h.email),
                                                   ~Absent(h.apiKey))
                         \o "\",")
               ELSE /\ httpResp[r] = Null
                    /\ pc[r] # "responded"
                    /\ server[r] # Null

\* Domain and API key missing, email present: both are named, in order.
C2_Witness ==
    \E r \in Requests :
        /\ request[r] # Null
        /\ IsMcpPost(request[r][1])
        /\ Absent(request[r][1].headers.domain)
        /\ ~Absent(request[r][1].headers.email)
        /\ Absent(request[r][1].headers.apiKey)
        /\ httpResp[r] # Null
        /\ Contains(httpResp[r][1].body,
                    "Missing required headers: X-Gorgias-Domain, X-Gorgias-API-Key\"")

\* The base URL and the Authorization header of a tenant's calls.
ExpectedBaseUrl(domain) ==
    IF domain = "acme" THEN "https://acme.gorgias.com/api/"
    ELSE "https://globex.gorgias.com/api/"

ExpectedAuthorization(email, apiKey) ==
    IF email = "a@acme.io" /\ apiKey = "key-a" THEN "Basic YUBhY21lLmlvOmtleS1h"
    ELSE "Basic YkBnbG9iZXguaW86a2V5LWI="

\* C3: under every interleaving of concurrent requests, the client built for
\* a request holds that request's own triple, and every upstream call issued
\* for a request goes to the base URL of that request's own domain with the
\* Basic header of that request's own email and API key.
C3_CallsUseOwnCredentials ==
    \A r \in Requests :
        /\ server[r] # Null
           => /\ server[r][1].client.credentials.domain = request[r][1].headers.domain[1]
              /\ server[r][1].client.credentials.email = request[r][1].headers.email[1]
              /\ server[r][1].client.credentials.apiKey = request[r][1].headers.apiKey[1]
        /\ \A k \in 1..Len(calls[r]) :
              /\ StartsWith(calls[r][k].url, ExpectedBaseUrl(request[r][1].headers.domain[1]))
              /\ calls[r][k].headers.Authorization =
                    ExpectedAuthorization(request[r][1].headers.email[1],
                                          request[r][1].headers.apiKey[1])

\* Two requests of different tenants both have an upstream call in flight.
C3_Witness ==
    \E r1, r2 \in Requests :
        /\ pc[r1] = "fetching"
        /\ pc[r2] = "fetching"
        /\ request[r1][1].headers = TenantA
        /\ request[r2][1].headers = TenantB
        /\ Len(calls[r1]) = 1
        /\ Len(calls[r2]) = 1

\* C4: the classification of an upstream response is a function of its
\* status with one outcome per response: 429 raises the rate-limit failure;
\* 401 and 403 raise the authentication failure; any other status outside
\* 200..299 raises the generic failure built with that status; a status in
\* 200..299 raises none of the three (the success path is taken, on which
\* only the decoding of the body can fail).
C4_StatusClassification ==
    \A r \in Requests :
        (response[r] # Null /\ response[r][1].kind = "response")
        => LET status == response[r][1].status
           IN  IF status = 429
               THEN raised[r] # Null /\ raised[r][1].name = "RateLimitError"
               ELSE IF status \in {401, 403}
               THEN raised[r] # Null /\ raised[r][1].name = "AuthenticationError"
               ELSE IF status < 200 \/ status > 299
               THEN /\ raised[r] # Null
                    /\ raised[r][1].name = "GorgiasApiError"
                    /\ raised[r][1].statusCode = Some(status)
               ELSE \/ raised[r] = Null
                    \/ raised[r][1].name = "SyntaxError"

\* A 403 has been classified as an authentication failure.
C4_Witness ==
    \E r \in Requests :
        /\ response[r] # Null
        /\ response[r][1].status = 403
        /\ raised[r] # Null
        /\ raised[r][1].name = "AuthenticationError"

\* An envelope: one text content item whose text is a string, and either no
\* isError field or isError = TRUE.
WellFormedEnvelope(e) ==
    /\ "content" \in DOMAIN e
    /\ DOMAIN e \subseteq {"content", "isError"}
    /\ Len(e.content) = 1
    /\ e.content[1].type = "text"
    /\ e.content[1].text # Null
    /\ "isError" \in DOMAIN e => e.isError = TRUE

\* C5: whatever tool is called and however its upstream call ends (success,
\* any failure status, a rejected fetch, a body that does not decode or does
\* not have the expected shape), the handler returns a well-formed envelope:
\* nothing thrown leaves the handler.
C5_HandlerAlwaysReturnsEnvelope ==
    \A r \in Requests :
        pc[r] = "returned" => (envelope[r] # Null /\ WellFormedEnvelope(envelope[r][1]))

\* A handler has returned an error envelope after a body that did not decode.
C5_Witness ==
    \E r \in Requests :
        /\ pc[r] = "returned"
        /\ response[r] # Null
        /\ response[r][1].status = 200
        /\ response[r][1].body = ""
        /\ raised[r] # Null
        /\ raised[r][1].name = "SyntaxError"
        /\ "isError" \in DOMAIN envelope[r][1]

\* The upstream call failed: the fetch was rejected, or the status is not 2xx.
UpstreamFailed(outcome) ==
    outcome.kind = "network_error" \/ outcome.status < 200 \/ outcome.status > 299

IsErrorEnvelope(e) == "isError" \in DOMAIN e /\ e.isError = TRUE

EnvelopeText(e) == e.content[1].text[1]

\* C6: for every tool, gorgias_test_connection included, a failed upstream
\* call (rate limit, authentication failure, other non-2xx status, rejected
\* fetch) yields an envelope with isError = TRUE.
C6_UpstreamFailureSetsIsError ==
    \A r \in Requests :
        (pc[r] = "returned" /\ response[r] # Null /\ UpstreamFailed(response[r][1]))
        => IsErrorEnvelope(envelope[r][1])

\* C7: nothing is retried: whatever the tool and whatever upstream answers
\* (429 and 5xx included), at most one upstream request is issued for an
\* invocation.
C7_AtMostOneUpstreamCall ==
    \A r \in Requests : Len(calls[r]) <= 1

\* A handler has returned after a 429, with one call issued.
C7_Witness ==
    \E r \in Requests :
        /\ pc[r] = "returned"
        /\ response[r] # Null
        /\ response[r][1].status = 429
        /\ Len(calls[r]) = 1

\* C8: with all three headers present and upstream answering 401 or 403, a
\* tool whose handler reports failures through formatError (gorgias_list_tickets
\* and every tool other than gorgias_test_connection) returns an isError
\* envelope whose text contains "Authentication failed" and no "(retryable)",
\* after exactly one upstream request.
C8_AuthenticationFailureEnvelope ==
    \A r \in Requests :
        ( /\ pc[r] = "returned"
          /\ response[r] # Null
          /\ response[r][1].status \in {401, 403}
          /\ invocation[r][1].tool.name # "gorgias_test_connection" )
        => /\ ~SomeHeaderAbsent(request[r][1])
           /\ IsErrorEnvelope(envelope[r][1])
           /\ Contains(EnvelopeText(envelope[r][1]), "Authentication failed")
           /\ ~Contains(EnvelopeText(envelope[r][1]), "(retryable)")
           /\ Len(calls[r]) = 1

\* Scenario A: gorgias_list_tickets has returned after upstream answered 403.
C8_Witness ==
    \E r \in Requests :
        /\ pc[r] = "returned"
        /\ invocation[r][1].tool.name = "gorgias_list_tickets"
        /\ response[r] # Null
        /\ response[r][1].status = 403
        /\ IsErrorEnvelope(envelope[r][1])

\* C9: the rate-limit failure raised for a 429 is built with a pause in
\* seconds: the integer of the Retry-After header when the header is present
\* with an integer value, and 60 when the header is absent.
C9_RateLimitPause ==
    \A r \in Requests :
        (response[r] # Null /\ response[r][1].status = 429)
        => /\ raised[r] # Null
           /\ raised[r][1].name = "RateLimitError"
           /\ response[r][1].retryAfter = Some("30")
              => raised[r][1].retryAfterSeconds = Some(Number(30))
           /\ response[r][1].retryAfter = Some("120")
              => raised[r][1].retryAfterSeconds = Some(Number(120))
           /\ response[r][1].retryAfter = Some("0")
              => raised[r][1].retryAfterSeconds = Some(Number(0))
           /\ response[r][1].retryAfter = Null
              => raised[r][1].retryAfterSeconds = Some(Number(60))

\* A 429 with Retry-After: 30 has raised a rate-limit failure with pause 30.
C9_Witness ==
    \E r \in Requests :
        /\ response[r] # Null
        /\ response[r][1].status = 429
        /\ response[r][1].retryAfter = Some("30")
        /\ raised[r] # Null
        /\ raised[r][1].retryAfterSeconds = Some(Number(30))

\* "API error: {status}" for the statuses of the generic failure.
ExpectedDefaultMessage(status) ==
    IF status = 300 THEN "API error: 300"
    ELSE IF status = 400 THEN "API error: 400"
    ELSE IF status = 404 THEN "API error: 404"
    ELSE IF status = 422 THEN "API error: 422"
    ELSE IF status = 500 THEN "API error: 500"
    ELSE "API error: 503"

\* The message of the generic failure, by the text of the response body.
ExpectedApiErrorMessage(status, body) ==
    IF body \in {"{\"message\":\"boom\"}", "{\"message\":\"boom\",\"error\":\"bad request\"}"}
    THEN "boom"
    ELSE IF body \in {"{\"error\":\"bad request\"}", "{\"message\":\"\",\"error\":\"bad request\"}"}
    THEN "bad request"
    ELSE ExpectedDefaultMessage(status)

\* C10: for a non-2xx status other than 429, 401 and 403 the generic failure
\* is built with that status and with the body's message field when the body
\* is JSON with a (non-empty) message, else with the body's error field when
\* it has a (non-empty) one, else with "API error: {status}": when the body
\* is not JSON, or is JSON with neither field.
C10_GenericFailureMessage ==
    \A r \in Requests :
        ( /\ response[r] # Null
          /\ response[r][1].kind = "response"
          /\ response[r][1].status \in ErrorStatuses )
        => /\ raised[r] # Null
           /\ raised[r][1].name = "GorgiasApiError"
           /\ raised[r][1].statusCode = Some(response[r][1].status)
           /\ raised[r][1].message =
                 ExpectedApiErrorMessage(response[r][1].status, response[r][1].body)

\* A 500 with body {"message":"boom"} has raised a failure with message "boom".
C10_Witness ==
    \E r \in Requests :
        /\ response[r] # Null
        /\ response[r][1].status = 500
        /\ response[r][1].body = "{\"message\":\"boom\"}"
        /\ raised[r] # Null
        /\ raised[r][1].message = "boom"
        /\ raised[r][1].statusCode = Some(500)

\* The message of an error envelope ends with the " (retryable)" suffix.
HasRetryableSuffix(e) == Contains(EnvelopeText(e), " (retryable)\",")

\* The tool call failed on a 429 answer.
RateLimited(r) ==
    response[r] # Null /\ response[r][1].kind = "response" /\ response[r][1].status = 429

\* C11: the message of an error envelope carries the " (retryable)" suffix
\* exactly when the failure is a rate-limit (429) failure: every error
\* envelope returned after a 429 has it, and no error envelope returned after
\* an authentication failure, a generic failure of another status, a rejected
\* fetch, an undecodable body or a local parse error has it.
C11_RetryableSuffixOnlyOnRateLimit ==
    \A r \in Requests :
        (pc[r] = "returned" /\ IsErrorEnvelope(envelope[r][1]))
        => (HasRetryableSuffix(envelope[r][1]) <=> RateLimited(r))

\* An error envelope returned after a 429 carries the suffix, and so the
\* handler of a tool has formatted a rate-limit failure.
C11_Witness ==
    \E r \in Requests :
        /\ pc[r] = "returned"
        /\ RateLimited(r)
        /\ IsErrorEnvelope(envelope[r][1])
        /\ HasRetryableSuffix(envelope[r][1])
        /\ EnvelopeText(envelope[r][1]) =
              "{\n  \"error\": \"Error: Rate limit exceeded (retryable)\",\n"
              \o "  \"details\": {\n    \"name\": \"RateLimitError\",\n"
              \o "    \"message\": \"Rate limit exceeded\"\n  }\n}"

\* The tool called by request r takes a free-text JSON argument, and the
\* text supplied for it does not parse as JSON.
UnparsableJsonSupplied(r) ==
    /\ invocation[r] # Null
    /\ invocation[r][1].tool.jsonArg # "none"
    /\ invocation[r][1].args.json # Null
    /\ JSONparse(invocation[r][1].args.json[1]).threw

\* The handler of request r has returned an error envelope with the message
\* of the parse failure, and no upstream call was issued.
RejectedBeforeUpstream(r) ==
    /\ pc[r] = "returned"
    /\ IsErrorEnvelope(envelope[r][1])
    /\ Contains(EnvelopeText(envelope[r][1]),
                "Error: " \o JSONparse(invocation[r][1].args.json[1]).error[1].message)
    /\ calls[r] = <<>>

\* C12 as stated: for every tool with a free-text JSON argument, whenever the
\* supplied text does not parse as JSON, the handler returns an isError
\* envelope carrying the parse failure message and no upstream call is made.
C12_UnparsableJsonAlwaysRejected ==
    \A r \in Requests : UnparsableJsonSupplied(r) => RejectedBeforeUpstream(r)

\* C12 as amended: the same, for a supplied text that is not empty, and for an
\* empty text when the tool requires the argument (gorgias_create_macro,
\* gorgias_create_job); where the argument is optional an empty text is
\* taken for an absent argument and is not parsed.
C12_UnparsableJsonRejected ==
    \A r \in Requests :
        ( /\ UnparsableJsonSupplied(r)
          /\ \/ invocation[r][1].args.json[1] # ""
             \/ invocation[r][1].tool.jsonArg = "required" )
        => RejectedBeforeUpstream(r)

\* gorgias_create_rule was called with codeAstJson = "not json" and returned
\* the parse failure without an upstream call.
C12_Witness ==
    \E r \in Requests :
        /\ UnparsableJsonSupplied(r)
        /\ invocation[r][1].tool.name = "gorgias_create_rule"
        /\ invocation[r][1].args.json = Some("not json")
        /\ RejectedBeforeUpstream(r)

\* The tool called by request r takes a limit and was called with one above
\* the maximum page size.
LimitAboveMaximum(r) ==
    /\ invocation[r] # Null
    /\ HasLimit(invocation[r][1].tool)
    /\ invocation[r][1].args.limit # Null
    /\ invocation[r][1].args.limit[1] > 100

\* C13: a list tool called with a limit above 100 (gorgias_list_customers
\* with limit = 500) is not rejected, and the upstream request it issues
\* forwards limit=100.
C13_LimitAboveMaximumClamped ==
    \A r \in Requests :
        LimitAboveMaximum(r)
        => /\ pc[r] # "rejected"
           /\ Len(calls[r]) = 1
           /\ LET url == calls[r][1].url
              IN  SubSeq(url, Len(url) - 9, Len(url)) = "?limit=100"

\* normalizePaginationParams has been applied with the default maximum.
NormalizedByDefault ==
    /\ applied # Null
    /\ applied[1].fn = "normalizePaginationParams"
    /\ applied[1].output # Null
    /\ applied[1].input.maxLimit = Null

\* C14: for every input (absent params, absent limit, zero, negative, values
\* above the maximum) normalizePaginationParams returns a limit within
\* [1,100], equal to 20 when no limit is supplied, and the cursor unchanged.
C14_NormalizedLimitInRange ==
    NormalizedByDefault
    => LET params == applied[1].input.params
           result == applied[1].output[1]
       IN  /\ result.limit >= 1 /\ result.limit <= 100
           /\ OptionalLimit(params) = Null => result.limit = 20
           /\ result.cursor = OptionalCursor(params)

\* The paginated list operation called for request r has returned a page.
PageReturned(r) ==
    /\ pc[r] = "returned"
    /\ GorgiasClientImpl[invocation[r][1].tool.op].returns = "page"
    /\ opResult[r] # Null

\* The items of the page the list operation returned for request r.
ItemsOf(r) == Prop(opResult[r][1], "items").arr

\* C15: for every paginated list operation and every upstream response, the
\* number of items in the returned result is at most the limit requested.
C15_ItemsWithinRequestedLimit ==
    \A r \in Requests :
        PageReturned(r) => Len(ItemsOf(r)) <= invocation[r][1].input[1].limit[1]

\* The list operation (paginated or not) called for request r was answered
\* with a successful response whose body is a page, and that page.
IsListOperation(r) ==
    GorgiasClientImpl[invocation[r][1].tool.op].returns \in {"page", "array"}

UpstreamPage(r) == JSONparse(response[r][1].body).value

PageAnswered(r) ==
    /\ pc[r] = "returned"
    /\ IsListOperation(r)
    /\ response[r] # Null
    /\ response[r][1].kind = "response"
    /\ ResponseOk(response[r][1].status)
    /\ response[r][1].status # 204
    /\ ~JSONparse(response[r][1].body).threw
    /\ IsObj(UpstreamPage(r))
    /\ IsArr(Prop(UpstreamPage(r), "data"))

\* The cursor upstream supplied with a page: the next_cursor member of its
\* meta object, undefined when the page has no meta or the meta no cursor.
SuppliedCursor(page) ==
    IF IsObj(Prop(page, "meta")) THEN Prop(Prop(page, "meta"), "next_cursor") ELSE JUndefined

DeleteOperations ==
    { "deleteTicket", "deleteMessage", "deleteCustomer", "deleteTeam", "deleteTag",
      "deleteMacro", "deleteRule", "deleteIntegration", "deleteView", "deleteWidget",
      "cancelJob" }

\* C17: for every delete or cancel operation, whenever upstream answers with
\* a 2xx status, with or without a response body, the client operation
\* completes returning nothing and the tool returns a success envelope.
C17_DeleteSucceedsOnAny2xx ==
    \A r \in Requests :
        ( /\ pc[r] = "returned"
          /\ invocation[r][1].tool.op \in DeleteOperations
          /\ response[r] # Null
          /\ response[r][1].kind = "response"
          /\ ResponseOk(response[r][1].status) )
        => /\ raised[r] = Null
           /\ opResult[r] = Some(JUndefined)
           /\ ~IsErrorEnvelope(envelope[r][1])

\* The caller of the update tool of request r left the field unset.
LeftUnset(field, args) ==
    IF field.shape = "json" THEN args.json = Null
    ELSE \A i \in 1..Len(args.fields) : args.fields[i][1] # field.arg

\* The text of a request body has a member of the given name.
HasMember(body, name) == Contains(body, "\"" \o name \o "\":")

\* C18: for every update operation, a field the caller left unset does not
\* appear in the request body sent upstream, neither with a value nor as
\* null.
C18_UnsetFieldsNotSent ==
    \A r \in Requests :
        (calls[r] # <<>> /\ invocation[r][1].tool.op \in UpdateOperations)
        => LET fields == UpdateFields[invocation[r][1].tool.op]
               body == calls[r][1].body[1]
           IN  \A i \in 1..Len(fields) :
                  LeftUnset(fields[i], invocation[r][1].args) => ~HasMember(body, fields[i].wire)

\* gorgias_update_ticket was called with only a null assigneeUserId and sent
\* exactly that member.
C18_Witness ==
    \E r \in Requests :
        /\ calls[r] # <<>>
        /\ invocation[r][1].tool.name = "gorgias_update_ticket"
        /\ invocation[r][1].args.fields = << <<"assigneeUserId", JNull>> >>
        /\ calls[r][1].method = "PUT"
        /\ calls[r][1].body = Some("{\"assignee_user\":null}")

\* An internal (camelCase) field name written as a wire (snake_case) name:
\* every upper-case letter becomes an underscore and its lower-case letter.
RECURSIVE toSnakeCase(_)
toSnakeCase(name) ==
    IF name = "" THEN ""
    ELSE LET c == CharAt(name, 1)
             rest == toSnakeCase(SubSeq(name, 2, Len(name)))
         IN  IF Contains(UpperCase, c)
             THEN "_" \o CharAt(LowerCase, IndexOf(UpperCase, c)) \o rest
             ELSE c \o rest

\* The names of the members of a JSON object.
MemberNames(object) == {object.obj[i][1] : i \in 1..Len(object.obj)}

\* A mapping function has been applied to a wire record and returned.
Mapped ==
    /\ applied # Null
    /\ applied[1].fn \in EntityMappers
    /\ applied[1].output # Null
    /\ ~applied[1].output[1].threw

\* C19: for every entity kind, the names of the members of the mapped
\* record, written back as snake_case names, are exactly the names of the
\* fields of the wire record: the mapping only renames between snake_case
\* and camelCase, drops no wire field and invents none.
C19_MappingRoundTripsFieldNames ==
    Mapped
    => {toSnakeCase(name) : name \in MemberNames(applied[1].output[1].value)}
           = MemberNames(applied[1].input)

\* formatResponse was applied and has ended.
Formatted ==
    /\ applied # Null
    /\ applied[1].fn = "formatResponse"
    /\ applied[1].output # Null

\* C20: formatResponse never raises: for every serializable value (null,
\* empty lists, lists and paginated results whose items are null or
\* primitives, objects with missing fields), either format and every entity
\* type, it returns an envelope with one text item whose text is a string.
C20_FormatResponseNeverRaises ==
    Formatted =>
        /\ ~applied[1].output[1].threw
        /\ Len(applied[1].output[1].value.content) = 1
        /\ applied[1].output[1].value.content[1].type = "text"
        /\ applied[1].output[1].value.content[1].text # Null

Answered(r, status) ==
    /\ pc[r] = "responded"
    /\ httpResp[r] # Null
    /\ httpResp[r][1].status = status
    /\ server[r] = Null

\* The router handed request r to the protocol handler, with a server and a
\* client built for the credentials of the request.
Delegated(r) ==
    /\ pc[r] # "responded"
    /\ httpResp[r] = Null
    /\ server[r] # Null
    /\ server[r][1].client.credentials =
           [ domain |-> request[r][1].headers.domain[1],
             email |-> request[r][1].headers.email[1],
             apiKey |-> request[r][1].headers.apiKey[1] ]

\* C22: every request the router has taken has exactly one outcome, decided
\* in this order: /health is answered 200 with {status: "ok", server: name}
\* for any method and any credentials; a POST to /mcp is answered 401 when a
\* credential is missing and is otherwise delegated to the protocol handler
\* with a server and client of its own; /sse is answered 501 with the fixed
\* message; every other request, a non-POST request to /mcp included, is
\* answered 200 with the service metadata, whatever its credentials.
C22_RouterOutcome ==
    \A r \in Requests :
        request[r] # Null =>
            LET req == request[r][1]
            IN  IF req.path = "/health"
                THEN /\ Answered(r, 200)
                     /\ httpResp[r][1].body = "{\"status\":\"ok\",\"server\":\"primrose-mcp-gorgias\"}"
                ELSE IF req.path = "/mcp" /\ req.method = "POST"
                THEN IF SomeHeaderAbsent(req) THEN Answered(r, 401) ELSE Delegated(r)
                ELSE IF req.path = "/sse"
                THEN /\ Answered(r, 501)
                     /\ httpResp[r][1].body =
                            "SSE endpoint requires Durable Objects. Enable in wrangler.jsonc."
                ELSE /\ Answered(r, 200)
                     /\ StartsWith(httpResp[r][1].body, "{\"name\":\"primrose-mcp-gorgias\"")
                     /\ Contains(httpResp[r][1].body, "\"tools\":[\"gorgias_test_connection\"")

\* A GET of /mcp without any credential was answered with the service
\* metadata.
C22_Witness ==
    \E r \in Requests :
        /\ request[r] # Null
        /\ request[r][1].path = "/mcp"
        /\ request[r][1].method = "GET"
        /\ request[r][1].headers.domain = Null
        /\ request[r][1].headers.apiKey = Null
        /\ Answered(r, 200)

\* Request r was answered with the service metadata.
AnsweredWithMetadata(r) ==
    /\ httpResp[r] # Null
    /\ httpResp[r][1].status = 200
    /\ request[r][1].path # "/health"

\* The tool names the metadata answer of request r lists, given that its
\* body ends with the list.
ListsTools(r, names) ==
    LET listed == "\"tools\":" \o TextOf(JArr([i \in 1..Len(names) |-> JStr(names[i])])) \o "}"
        body == httpResp[r][1].body
    IN  /\ Len(body) >= Len(listed)
        /\ SubSeq(body, Len(body) - Len(listed) + 1, Len(body)) = listed

\* C23: the tool names listed by the metadata answer are exactly the names
\* of the tools createStatelessServer registers: every registered tool is
\* listed, every listed name is registered, and no name is listed or
\* registered twice.
C23_ListedToolsAreTheRegisteredTools ==
    \A r1, r2 \in Requests :
        (AnsweredWithMetadata(r1) /\ server[r2] # Null) =>
            LET registered == server[r2][1].tools
            IN  /\ ListsTools(r1, InfoToolNames)
                /\ {InfoToolNames[i] : i \in 1..Len(InfoToolNames)}
                       = {registered[i].name : i \in 1..Len(registered)}
                /\ \A i, j \in 1..Len(InfoToolNames) :
                       InfoToolNames[i] = InfoToolNames[j] => i = j
                /\ \A i, j \in 1..Len(registered) :
                       registered[i].name = registered[j].name => i = j

\* One request was answered with the metadata while another had its tools
\* registered.
C23_Witness ==
    \E r1, r2 \in Requests :
        /\ AnsweredWithMetadata(r1)
        /\ server[r2] # Null
        /\ Len(server[r2][1].tools) > 0
        /\ ListsTools(r1, InfoToolNames)

\* The upstream call of request r was answered with a response.
Responded(r) == response[r] # Null /\ response[r][1].kind = "response"

\* kind appears among the reads made of the body of the response to r.
ReadAs(r, kind) == \E i \in 1..Len(bodyReads[r]) : bodyReads[r][i] = kind

\* C24: request() classifies the status before it reads any body: the body
\* of a 429, 401 or 403 response is never read or parsed; response.text() is
\* called only for the other statuses outside 200..299; response.json() is
\* called only for a status in 200..299 other than 204, and a 204 body is
\* not read at all.
C24_StatusClassifiedBeforeBodyRead ==
    \A r \in Requests :
        Responded(r) =>
            LET status == response[r][1].status
            IN  /\ status \in {429, 401, 403} => bodyReads[r] = <<>>
                /\ ReadAs(r, "text") =>
                       (status < 200 \/ status > 299) /\ status \notin {429, 401, 403}
                /\ ReadAs(r, "json") => status >= 200 /\ status <= 299 /\ status # 204
                /\ status = 204 => bodyReads[r] = <<>>
                /\ Len(bodyReads[r]) > 0 => bodyReads[r][1] \in {"text", "json"}

\* A 403 whose body was left unread, with the failure classified.
C24_Witness ==
    \E r \in Requests :
        /\ Responded(r)
        /\ response[r][1].status = 403
        /\ bodyReads[r] = <<>>
        /\ raised[r] # Null
        /\ raised[r][1].name = "AuthenticationError"

\* C28: for every 429 response, whatever the Retry-After header holds (a
\* decimal integer, zero, an empty text, an HTTP-date or other text that is
\* not a number), the pause carried by the rate-limit failure is a finite
\* integer number of seconds that is not negative.
C28_RateLimitPauseIsNonNegativeInteger ==
    \A r \in Requests :
        (Responded(r) /\ response[r][1].status = 429 /\ raised[r] # Null)
        => /\ raised[r][1].name = "RateLimitError"
           /\ raised[r][1].retryAfterSeconds # Null
           /\ raised[r][1].retryAfterSeconds[1] # NaN
           /\ raised[r][1].retryAfterSeconds[1][1] >= 0

\* The two assignee fields of gorgias_update_ticket.
AssigneeFields == { <<"assigneeUserId", "assignee_user">>, <<"assigneeTeamId", "assignee_team">> }

\* The value the caller of request r supplied for argument arg (undefined
\* when it was not supplied).
SuppliedValue(r, arg) ==
    LET fields == invocation[r][1].args.fields
    IN  IF \E i \in 1..Len(fields) : fields[i][1] = arg
        THEN fields[CHOOSE i \in 1..Len(fields) : fields[i][1] = arg][2]
        ELSE JUndefined

\* The text of a request body has the member name with exactly the value.
HasMemberWithValue(body, name, value) ==
    Contains(body, "\"" \o name \o "\":" \o JSONstringify(value)[1])

\* gorgias_update_ticket has issued its upstream call for request r.
TicketUpdateSent(r) ==
    /\ calls[r] # <<>>
    /\ invocation[r] # Null
    /\ invocation[r][1].tool.name = "gorgias_update_ticket"

\* C26: gorgias_update_ticket sends the assignee fields as documented: an
\* integer assigneeUserId (assigneeTeamId) is sent as assignee_user
\* (assignee_team) = {id: that id}; null is sent as the key with the value
\* null; a field that is not supplied leaves the key out of the body; an
\* integer id is never sent as an unassignment.
C26_AssigneeFieldsSentAsDocumented ==
    \A r \in Requests :
        TicketUpdateSent(r)
        => \A field \in AssigneeFields :
              LET v == SuppliedValue(r, field[1])
                  body == calls[r][1].body[1]
              IN  /\ IsNum(v) => /\ HasMemberWithValue(body, field[2], JObj(<< <<"id", v>> >>))
                                 /\ ~HasMemberWithValue(body, field[2], JNull)
                  /\ v = JNull => HasMemberWithValue(body, field[2], JNull)
                  /\ IsUndefined(v) => ~HasMember(body, field[2])

\* A JSON value is an array whose elements are all objects.
IsArrayOfObjects(v) == IsArr(v) /\ \A i \in 1..Len(v.arr) : IsObj(v.arr[i])

\* gorgias_create_macro was called for request r with an actionsJson that is
\* valid JSON but not an array of objects.
MacroActionsMisshapen(r) ==
    /\ invocation[r] # Null
    /\ invocation[r][1].tool.name = "gorgias_create_macro"
    /\ ~JSONparse(invocation[r][1].args.json[1]).threw
    /\ ~IsArrayOfObjects(JSONparse(invocation[r][1].args.json[1]).value)

\* C27: free-form structured inputs are validated for their shape after
\* parsing: when gorgias_create_macro receives an actionsJson that is valid
\* JSON but not an array of objects (such as "42" or "{}"), the handler
\* returns an error envelope and nothing is sent upstream.
C27_MisshapenActionsRejected ==
    \A r \in Requests :
        MacroActionsMisshapen(r)
        => /\ calls[r] = <<>>
           /\ pc[r] = "returned"
           /\ envelope[r] # Null
           /\ IsErrorEnvelope(envelope[r][1])

\* gorgias_create_integration was called for request r.
IntegrationCreateCalled(r) ==
    /\ invocation[r] # Null
    /\ invocation[r][1].tool.name = "gorgias_create_integration"
    /\ pc[r] \in {"fetching", "returned"}

\* The caller of request r supplied an httpUrl.
HttpUrlSupplied(r) == ~IsUndefined(SuppliedValue(r, "httpUrl"))

\* C30: for gorgias_create_integration, an httpHeadersJson that parses is
\* always forwarded upstream as http.headers of the integration, also when
\* httpUrl is absent (it is never parsed and then dropped), and an
\* httpHeadersJson that does not parse blocks the create only when the
\* headers would have been used, that is when httpUrl is supplied.
C30_ParsedHeadersAlwaysForwarded ==
    \A r \in Requests :
        IntegrationCreateCalled(r)
        => LET text == invocation[r][1].args.json
           IN  /\ (Truthy(text) /\ ~JSONparse(text[1]).threw)
                  => /\ calls[r] # <<>>
                     /\ Contains(calls[r][1].body[1], "\"headers\":" \o text[1])
               /\ (Truthy(text) /\ JSONparse(text[1]).threw /\ ~HttpUrlSupplied(r))
                  => calls[r] # <<>>

\* The filter members of TicketListParams with their wire names.
TicketFilters ==
    { <<"status", "status">>, <<"channel", "channel">>,
      <<"assigneeUserId", "assignee_user_id">>, <<"assigneeTeamId", "assignee_team_id">>,
      <<"customerId", "customer_id">>, <<"tagIds", "tag_ids">>,
      <<"createdDatetimeAfter", "created_datetime_after">>,
      <<"createdDatetimeBefore", "created_datetime_before">>,
      <<"updatedDatetimeAfter", "updated_datetime_after">>,
      <<"updatedDatetimeBefore", "updated_datetime_before">>,
      <<"orderBy", "order_by">> }

\* The query string of an endpoint: what follows the question mark.
QueryOf(endpoint) == SubSeq(endpoint, IndexOf(endpoint, "?") + 1, Len(endpoint))

\* The query string has a parameter of that name.
HasParameter(query, name) == Contains("&" \o query, "&" \o name \o "=")

\* The query string has the parameter with that value (form-encoded).
HasParameterWithValue(query, name, value) ==
    Contains("&" \o query \o "&", "&" \o name \o "=" \o FormEncode(String(value)) \o "&")

\* listTickets has been evaluated on parameters.
TicketsListed ==
    /\ applied # Null
    /\ applied[1].fn = "listTickets"
    /\ applied[1].output # Null

\* C29: for listTickets, every filter member of TicketListParams that the
\* caller supplies (status, channel, assigneeUserId, assigneeTeamId,
\* customerId, tagIds, the four created/updated datetime bounds, orderBy)
\* appears in the upstream query string under its snake_case name with the
\* supplied value, and no filter parameter appears that the caller did not
\* supply.
C29_SuppliedFiltersInQuery ==
    TicketsListed
    => \A filter \in TicketFilters :
          LET v == Param(applied[1].input, filter[1])
              query == QueryOf(applied[1].output[1])
          IN  IF IsUndefined(v) THEN ~HasParameter(query, filter[2])
              ELSE HasParameterWithValue(query, filter[2], v)

\* The handler of request r awaits the upstream call it issued.
Awaiting(r) == pc[r] = "fetching"

\* The handler of request r has returned an envelope.
Returned(r) == pc[r] = "returned" /\ envelope[r] # Null

\* C25: once a tool handler has issued its upstream call and that call
\* completes, with a response of any status or with a network failure, the
\* handler eventually returns; it returns exactly one envelope, which is
\* never replaced, and it has waited on that single upstream call only.
C25_HandlerReturnsOneEnvelope ==
    /\ \A r \in Requests : Awaiting(r) ~> Returned(r)
    /\ [](\A r \in Requests : Awaiting(r) \/ (Returned(r) /\ response[r] # Null)
                                  => Len(calls[r]) = 1)
    /\ [][\A r \in Requests : Returned(r) => Returned(r)' /\ envelope'[r] = envelope[r]]_vars

\* The handler of gorgias_create_job has returned its envelope after the one
\* upstream call it issued failed in the network.
C25_Witness ==
    /\ Returned(1)
    /\ invocation[1][1].tool.name = "gorgias_create_job"
    /\ response[1] = Some(NetworkError)
    /\ Len(calls[1]) = 1
    /\ IsErrorEnvelope(envelope[1][1])

====
